---- MODULE Spec2Model ----
(***************************************************************************)
(* A model of the BitHive relayer example client, src/src/utils/relayer.ts.*)
(* One call of one exported function runs at a time; its steps are the     *)
(* continuations between two awaits.  The remote relayer is opaque: every  *)
(* answer it gives is an input drawn from a small set.                     *)
(***************************************************************************)
EXTENDS Integers, Sequences, FiniteSets, TLC

(* ------------------------------- bounds -------------------------------- *)

\* The longest list of deposits handed to a waiter.
MaxLen == 3

\* The relayer requests of an example that are followed.
MaxRequests == 2

(* ------------------------- program constants --------------------------- *)

DEFAULT_WAIT_INTERVAL == 2 * 60 * 1000

DEFAULT_WAIT_TIMEOUT == 60 * 60 * 1000

(* ------------------------------ inputs --------------------------------- *)

\* Names of transaction hashes; Hash(k) is the k-th one.
HashNames == <<"h1", "h2", "h3", "h4", "h5", "h6">>

Hash(k) == HashNames[k]

TxHashes == {Hash(k) : k \in 1..MaxLen}

Vouts == {0, 1}

\* The type Deposit: a transaction hash and an output index.
Deposit == [txHash : TxHashes, vout : Vouts]

\* Every status string the remote service may report, one of them unknown to
\* this code (the enum is open).
Statuses ==
  {"DepositProcessing", "DepositConfirmed", "DepositConfirmedInvalid",
   "DepositFailed", "UnstakeProcessing", "UnstakeConfirmed",
   "ChainSignProcessing", "WithdrawProcessing", "WithdrawConfirmed",
   "WithdrawFailed", "SomeNewStatus"}

\* What a call of the relayer client can do besides answering: its promise
\* rejects, or (getDeposit) it resolves without a deposit record.
Rejected == "<rejected>"

NoRecord == "<undefined>"

Answers == Statuses \cup {Rejected, NoRecord}

\* Milliseconds the remote service takes to answer a call; one value applies
\* to every remote call of a run.
Latencies == {0, 2}

\* The timeout option of a waiter: <<>> when not given, <<t>> when given.
TimeoutOptions == {<<1>>, <<300000>>}

\* The type Deposits = Deposit[] | string | string[], as a tagged value.
StringInput(h) == [kind |-> "string", value |-> h]

StringsInput(hs) == [kind |-> "strings", value |-> hs]

DepositsInput(ds) == [kind |-> "deposits", value |-> ds]

\* <<h1, ..., hn>>
HashPrefix(n) == [k \in 1..n |-> Hash(k)]

\* <<(h1, 0), (h2, 1), (h3, 0), ...>>
DepositPrefix(n) == [k \in 1..n |-> [txHash |-> Hash(k), vout |-> (k - 1) % 2]]

\* The arguments `deposits` the waiters are called with: a hash, lists of
\* hashes (one of them in two orders), lists of deposits.
CallInputs ==
  {StringInput(Hash(1)), StringsInput(<<Hash(2), Hash(1)>>)}
    \cup {StringsInput(HashPrefix(n)) : n \in 0..MaxLen}
    \cup {DepositsInput(DepositPrefix(n)) : n \in 1..(MaxLen - 1)}

\* The arguments `deposits` unstake and withdraw are called with.
OpInputs ==
  {StringInput(Hash(1))}
    \cup {StringsInput(HashPrefix(n)) : n \in 0..(MaxLen - 1)}
    \cup {DepositsInput(DepositPrefix(n)) : n \in 1..(MaxLen - 1)}

\* BitcoinProvider: which of signPsbt and signMessage the provider has.
Providers == [signPsbt : BOOLEAN, signMessage : BOOLEAN]

FullProvider == [signPsbt |-> TRUE, signMessage |-> TRUE]

\* A test that takes every provider to sign PSBTs.
HasSignPsbtAlways(p) == TRUE

\* if (provider.signPsbt)
HasSignPsbt(p) == p.signPsbt

\* if (provider.signMessage)
HasSignMessage(p) == p.signMessage

WaitCalls == {"waitUntilStaked", "waitUntilUnstaked", "waitUntilWithdrawn"}

OpCalls == {"unstake", "withdraw"}

(* --------------------------- pure functions ---------------------------- *)

\* Array.isArray(input) && input.every((item) => typeof item === 'string'):
\* every() holds of the empty array whatever its declared element type.
EveryString(input) ==
  input.kind # "string" /\ (input.kind = "strings" \/ Len(input.value) = 0)

\* A parse that takes the index handed to the map callback for the vout.
parseDepositsInputIndexed(input) ==
  IF input.kind = "string"
    THEN <<[txHash |-> input.value, vout |-> 0]>>
    ELSE IF EveryString(input)
      THEN [k \in 1..Len(input.value) |-> [txHash |-> input.value[k], vout |-> k - 1]]
      ELSE input.value

\* parseDepositsInput: a string becomes one deposit with vout 0, a list of
\* strings one deposit with vout 0 per string, a list of deposits is returned
\* as it is.
parseDepositsInput(input) ==
  IF input.kind = "string"
    THEN <<[txHash |-> input.value, vout |-> 0]>>
    ELSE IF EveryString(input)
      THEN [k \in 1..Len(input.value) |-> [txHash |-> input.value[k], vout |-> 0]]
      ELSE input.value

\* `${deposits}` in an error message: JavaScript's string conversion of the
\* caller's argument, one name per element (an object prints as
\* "[object Object]").
TemplateString(input) ==
  IF input.kind = "string"
    THEN <<input.value>>
    ELSE IF input.kind = "strings"
      THEN input.value
      ELSE [k \in 1..Len(input.value) |-> "[object Object]"]

\* The status sets of the three waiters.
SuccessStatusesWide(c) ==
  CASE c = "waitUntilStaked" ->
         {"DepositConfirmed", "DepositConfirmedInvalid", "UnstakeProcessing"}
    [] c = "waitUntilUnstaked" ->
         {"UnstakeConfirmed", "ChainSignProcessing", "WithdrawProcessing"}
    [] c = "waitUntilWithdrawn" -> {"WithdrawConfirmed"}

SuccessStatuses(c) ==
  CASE c = "waitUntilStaked" -> {"DepositConfirmed", "DepositConfirmedInvalid"}
    [] c = "waitUntilUnstaked" -> {"UnstakeConfirmed", "ChainSignProcessing"}
    [] c = "waitUntilWithdrawn" -> {"WithdrawConfirmed"}

PendingStatuses(c) ==
  CASE c = "waitUntilStaked" -> {"DepositProcessing"}
    [] c = "waitUntilUnstaked" -> {"UnstakeProcessing"}
    [] c = "waitUntilWithdrawn" -> {"WithdrawProcessing"}

FailureStatuses(c) ==
  CASE c = "waitUntilStaked" -> {"DepositFailed"}
    [] c = "waitUntilUnstaked" -> {}
    [] c = "waitUntilWithdrawn" -> {"WithdrawFailed"}

\* A chain that keeps a failed deposit among the pending ones.
ClassifyFailureAsPending(c, status) ==
  IF status \in SuccessStatuses(c) THEN "success"
  ELSE IF status \in PendingStatuses(c) \cup FailureStatuses(c) THEN "pending"
  ELSE "invalid"

\* A chain whose last branch counts a failure.
ClassifyOtherAsFailure(c, status) ==
  IF status \in SuccessStatuses(c) THEN "success"
  ELSE IF status \in PendingStatuses(c) THEN "pending"
  ELSE "failure"

\* The if / else-if chain of a polling round.
Classify(c, status) ==
  IF status \in SuccessStatuses(c) THEN "success"
  ELSE IF status \in PendingStatuses(c) THEN "pending"
  ELSE IF status \in FailureStatuses(c) THEN "failure"
  ELSE "invalid"

\* A check that lets the success statuses of a waiter pass as well.
AcceptedStatusesLax(c) ==
  CASE c = "waitUntilStaked" ->
         {"DepositProcessing", "DepositConfirmed", "DepositConfirmedInvalid"}
    [] c = "waitUntilUnstaked" ->
         {"UnstakeProcessing", "UnstakeConfirmed", "ChainSignProcessing"}
    [] c = "waitUntilWithdrawn" -> {"WithdrawProcessing", "WithdrawConfirmed"}
    [] c = "unstake" -> {"DepositConfirmed", "DepositConfirmedInvalid"}
    [] c = "withdraw" -> {"UnstakeConfirmed", "ChainSignProcessing"}

\* The statuses the check after the initial query lets pass: the one status
\* a waiter compares with, the ready list of unstake and of withdraw.
AcceptedStatuses(c) ==
  CASE c = "waitUntilStaked" -> {"DepositProcessing"}
    [] c = "waitUntilUnstaked" -> {"UnstakeProcessing"}
    [] c = "waitUntilWithdrawn" -> {"WithdrawProcessing"}
    [] c = "unstake" -> {"DepositConfirmed", "DepositConfirmedInvalid"}
    [] c = "withdraw" -> {"UnstakeConfirmed", "ChainSignProcessing"}

\* A check that looks at the first answer only.
FindInvalidFirstOnly(rs, ok) ==
  IF Len(rs) >= 1 /\ rs[1] \notin ok THEN 1 ELSE 0

\* data.find((deposit) => <deposit.status is not accepted>): the first index
\* whose answer is not accepted, 0 when there is none.  The callback reads
\* deposit.status, so it stops at an answer without a record, too.
FindInvalid(rs, ok) ==
  IF \E k \in 1..Len(rs) : rs[k] \notin ok
    THEN CHOOSE k \in 1..Len(rs) :
           /\ rs[k] \notin ok
           /\ \A j \in 1..(k - 1) : rs[j] \in ok
    ELSE 0

\* A poll that takes a rejected query for an answer with an unknown status.
ThrowsWithoutRecordOnly(answer) == answer = NoRecord

\* const { deposit } = await relayer.user.getDeposit(...); deposit.status:
\* the await throws when the promise rejects, the read of .status when the
\* answer holds no deposit record.
Throws(answer) == answer \in {Rejected, NoRecord}

\* A loop that is left after its first pass.
MoreToPollNever(k, list) == FALSE

\* for (const _deposit of _deposits): an element follows the k-th.
MoreToPoll(k, list) == k < Len(list)

\* A start of the clock when the initial query is sent.
StartTimeAtCall(sent, answered) == sent

\* const startTime = Date.now(), after the initial query has been answered
\* and checked.
StartTime(sent, answered) == answered

\* A check that grants one more interval after the timeout.
TimeoutReachedLate(elapsed, limit) == elapsed > limit + DEFAULT_WAIT_INTERVAL

\* Date.now() - startTime > timeout
TimeoutReached(elapsed, limit) == elapsed > limit

\* A test that overlooks a single pending deposit.
HasPendingOffByOne(pending) == Len(pending) > 1

\* pendingDeposits.length > 0
HasPending(pending) == Len(pending) > 0

\* A sleep that is cut short when the deadline is nearer than the interval.
SleepTimeToDeadline(elapsed, limit) ==
  IF limit - elapsed < DEFAULT_WAIT_INTERVAL
    THEN (IF limit - elapsed < 0 THEN 0 ELSE limit - elapsed + 1)
    ELSE DEFAULT_WAIT_INTERVAL

\* sleep(DEFAULT_WAIT_INTERVAL): the time slept, whatever time has elapsed
\* and whatever the timeout is.
SleepTime(elapsed, limit) == DEFAULT_WAIT_INTERVAL

\* A round that polls the whole list again.
ReassignedNever(current, pending) == current

\* _deposits = pendingDeposits: the list the next round goes through.
Reassigned(current, pending) == pending

\* A count that adds a success twice.
CountedSuccessTwice(cnt, bucket) ==
  IF bucket = "pending" THEN cnt
  ELSE IF bucket = "success" THEN [cnt EXCEPT !.success = @ + 2]
  ELSE [cnt EXCEPT ![bucket] = @ + 1]

\* A count that books a failure as invalid.
CountedFailureAsInvalid(cnt, bucket) ==
  IF bucket = "pending" THEN cnt
  ELSE IF bucket = "failure" THEN [cnt EXCEPT !.invalid = @ + 1]
  ELSE [cnt EXCEPT ![bucket] = @ + 1]

\* A count that starts anew whenever a deposit is seen pending.
CountedForgetting(cnt, bucket) ==
  IF bucket = "pending" THEN [success |-> 0, failure |-> 0, invalid |-> 0]
  ELSE [cnt EXCEPT ![bucket] = @ + 1]

\* count.success++, count.failure++ or count.invalid++; a pending deposit is
\* not counted.
Counted(cnt, bucket) ==
  IF bucket = "pending" THEN cnt ELSE [cnt EXCEPT ![bucket] = @ + 1]

(* ------------------------------- errors -------------------------------- *)

NoError == [kind |-> "none", names |-> <<>>, txHash |-> "", status |-> ""]

\* throw Error(`The deposits (${deposits}) are not found`)
NotFoundError(input) ==
  [kind |-> "notFound", names |-> TemplateString(input), txHash |-> "",
   status |-> ""]

\* throw Error(`The deposit (${invalidDeposit.depositTxHash}) with status
\* (${invalidDeposit.status}) has not been staked`), and the like of the
\* other waiters and of unstake and withdraw ("is not ready to ...").
PreconditionError(d, status) ==
  [kind |-> "precondition", names |-> <<>>, txHash |-> d.txHash,
   status |-> status]

\* throw Error(`Waiting timeout ${timeout} ms reached for staking (${deposits})`)
TimeoutError(input) ==
  [kind |-> "timeout", names |-> TemplateString(input), txHash |-> "",
   status |-> ""]

\* throw Error('signPsbt is not supported'), 'signMessage is not supported'
UnsupportedError(capability) ==
  [kind |-> "unsupported", names |-> <<capability>>, txHash |-> "",
   status |-> ""]

\* A rejected promise of the relayer client, passed on by await.
RemoteError == [kind |-> "remote", names |-> <<>>, txHash |-> "", status |-> ""]

\* TypeError: `.status` is read of a deposit record that is undefined.
TypeError == [kind |-> "typeError", names |-> <<>>, txHash |-> "", status |-> ""]

\* throw Error('Unimplemented')
UnimplementedError ==
  [kind |-> "unimplemented", names |-> <<>>, txHash |-> "", status |-> ""]

\* What the check after the initial query throws, NoError when it passes.
\* A rejected getDeposit rejects Promise.all before any check.
CheckQueried(c, input, parsed, rs) ==
  IF \E j \in 1..Len(rs) : rs[j] = Rejected
    THEN RemoteError
    ELSE IF Len(rs) = 0
      THEN NotFoundError(input)
      ELSE IF FindInvalid(rs, AcceptedStatuses(c)) = 0
        THEN NoError
        ELSE IF rs[FindInvalid(rs, AcceptedStatuses(c))] = NoRecord
          THEN TypeError
          ELSE PreconditionError(parsed[FindInvalid(rs, AcceptedStatuses(c))],
                                 rs[FindInvalid(rs, AcceptedStatuses(c))])

(* ------------------------------- signer -------------------------------- *)

\* The type SignatureType as signMessage uses it: 'ECDSA', or an object with
\* Bip322Full.address.
ECDSA == [kind |-> "ECDSA", address |-> ""]

Bip322Full(address) == [kind |-> "Bip322Full", address |-> address]

\* The argument signatureType: <<>> when omitted (or undefined), <<t>> when
\* given.
SignatureOptions ==
  {<<>>, <<ECDSA>>, <<Bip322Full("tb1qaddress")>>, <<Bip322Full("2Naddress")>>}

\* The messages handed to signMessage.
Messages == {"unstake h1", "unstake h1 h2", ""}

\* A default that takes the other scheme.
SignatureTypeDefaultBip322(option) ==
  IF option = <<>> THEN Bip322Full("tb1qaddress") ELSE option[1]

\* signatureType: SignatureType = 'ECDSA'
SignatureTypeDefault(option) == IF option = <<>> THEN ECDSA ELSE option[1]

\* What a call of the signer gives: the signature it returns (<<>> when
\* none) and the error it throws (NoError when none).
\* signMessageEcdsa: okx.message.sign(WIF, message, network).
signMessageEcdsa(message) ==
  [signature |-> <<[scheme |-> "ECDSA", message |-> message]>>,
   error |-> NoError]

\* signMessageBip32Full: throw Error('Unimplemented').
signMessageBip32Full(message, address) ==
  [signature |-> <<>>, error |-> UnimplementedError]

\* BitcoinSigner.signMessage(message, signatureType = 'ECDSA')
signMessage(message, option) ==
  IF SignatureTypeDefault(option) = ECDSA
    THEN signMessageEcdsa(message)
    ELSE signMessageBip32Full(message, SignatureTypeDefault(option).address)

(* -------------------------------- PSBTs -------------------------------- *)

\* A PSBT: where it came from, its number of inputs, the inputs the wallet
\* has signed and finalized, and whether the chain signature is on it.
NoPsbt ==
  [source |-> "none", inputs |-> 0, signedInputs |-> {}, finalizedInputs |-> {},
   chainSigned |-> FALSE]

\* The answer of relayer.withdraw.buildUnsignedPsbt for n deposits.
UnsignedPsbt(n) ==
  [source |-> "buildUnsignedPsbt", inputs |-> n, signedInputs |-> {},
   finalizedInputs |-> {}, chainSigned |-> FALSE]

\* The answer of relayer.deposit.buildUnsignedPsbt: a staking PSBT with n
\* inputs of the wallet.
DepositPsbt(n) ==
  [source |-> "deposit.buildUnsignedPsbt", inputs |-> n, signedInputs |-> {},
   finalizedInputs |-> {}, chainSigned |-> FALSE]

\* account.pendingSignPsbt.psbt: a withdrawal PSBT that waits for the chain
\* signature.
PendingSignPsbt ==
  [source |-> "pendingSignPsbt", inputs |-> 1, signedInputs |-> {0},
   finalizedInputs |-> {}, chainSigned |-> FALSE]

\* The account records relayer.user.getAccount answers with.
Accounts == {[pendingSignPsbt |-> <<>>], [pendingSignPsbt |-> <<PendingSignPsbt>>]}

NoAccount == [pendingSignPsbt |-> <<>>]

\* A withdraw that does not look at the pending PSBT of the account.
HasPendingSignPsbtIgnored(acc) == FALSE

\* if (account.pendingSignPsbt)
HasPendingSignPsbt(acc) == acc.pendingSignPsbt # <<>>

\* BitcoinSigner.signPsbt: signs the inputs of toSignInputs (all inputs when
\* the option is absent: <<>>), and finalizes them unless autoFinalized is false.
signPsbt(psbt, autoFinalized, toSignInputs) ==
  LET signed == IF toSignInputs = <<>>
                  THEN 0..(psbt.inputs - 1)
                  ELSE {toSignInputs[1][k] : k \in 1..Len(toSignInputs[1])}
  IN [psbt EXCEPT
        !.signedInputs = @ \cup signed,
        !.finalizedInputs = IF autoFinalized THEN @ \cup signed ELSE @]

\* A signing request for the first input only.
ToSignInputsFirst(parsed) == <<<<0>>>>

\* toSignInputs: _deposits.map((_, index) => ({ index, publicKey }))
ToSignInputs(parsed) == <<[k \in 1..Len(parsed) |-> k - 1]>>

\* The answer of relayer.withdraw.pollChainSignedPsbt to the PSBT sent to
\* chainSignPsbtAsync.
ChainSigned(psbt) == [psbt EXCEPT !.chainSigned = TRUE]

\* One remote request or wallet call, as recorded in `trace`.
Request(method, psbt) == [method |-> method, psbt |-> psbt]

(* ------------------------------- state --------------------------------- *)

VARIABLES
  call,                 \* the exported function that runs
  deposits,             \* its argument `deposits`
  timeoutOption,        \* its argument `{ timeout }`
  provider,             \* its argument `provider`
  latency,              \* the time the remote service takes to answer
  pc,                   \* where the call is: the await it is suspended at
  error,                \* the error it threw
  _deposits,            \* the local `_deposits`
  results,              \* queryDeposits: the answers of the initial query
  count,                \* the local `count`
  startTime,            \* the local `startTime`
  now,                  \* Date.now()
  pendingDeposits,      \* the local `pendingDeposits` of the current round
  i,                    \* the position of the round's for loop in _deposits
  depositStatus,        \* the local `depositStatus` of the latest poll
  account,              \* withdraw: the local `account`
  partiallySignedPsbt,  \* withdraw: the local `partiallySignedPsbt`
  txHash,               \* withdraw: the transaction hash it returns
  trace,                \* history: the build, sign and submit requests sent
  sleeps,               \* history: completed sleeps
  rounds,               \* history: polling rounds begun
  origin,               \* history: the given positions of _deposits
  pendingOrigin,        \* history: the given positions of pendingDeposits
  last,                 \* history: the given position of the deposit polled last
  outcome,              \* history: the latest class of each given deposit
  wake,                 \* the time the timer of the current sleep fires
  suspended,            \* the frames of the other invocations in progress
  staker,               \* the BitHiveStaker method that made the call, if any
  process,              \* the process of index.ts: environment, arguments, progress
  signer                \* the call of BitcoinSigner.signMessage made directly, if any

\* What no step of the running invocation changes: its arguments, the
\* environment and the frames of the other invocations.
argVars ==
  <<call, deposits, timeoutOption, provider, latency, suspended, staker,
    process, signer>>

waitVars ==
  <<count, startTime, pendingDeposits, i, depositStatus, sleeps, rounds,
    pendingOrigin, last, outcome, wake>>

opVars == <<account, partiallySignedPsbt, txHash, trace>>

vars ==
  <<call, deposits, timeoutOption, provider, latency, pc, error, _deposits,
    results, now, origin, count, startTime, pendingDeposits, i, depositStatus,
    sleeps, rounds, pendingOrigin, last, outcome, account, partiallySignedPsbt,
    txHash, trace, wake, suspended, staker, process, signer>>

\* No process of index.ts is modelled: a function of the library is called.
NoProcess ==
  [pc |-> "none", env |-> <<>>, argv |-> <<>>, config |-> <<>>,
   relayer |-> FALSE, ran |-> <<>>, requests |-> 0, stderr |-> <<>>,
   exitCode |-> 0]

\* The frame of a BitHiveStaker method: its options wait and timeout (<<>>
\* when not given), its argument depositTxHash, where it is (pc) and what it
\* returns.
NoStaker ==
  [method |-> "none", wait |-> <<>>, timeout |-> <<>>, depositTxHash |-> "",
   pc |-> "none", result |-> ""]

\* No call of signMessage is made directly.
NoSigner ==
  [pc |-> "none", message |-> "", signatureType |-> <<>>, signature |-> <<>>,
   error |-> NoError]

\* A default that stops waiting after half an hour.
timeoutHalfHour ==
  IF timeoutOption = <<>> THEN 30 * 60 * 1000 ELSE timeoutOption[1]

\* { timeout = DEFAULT_WAIT_TIMEOUT }: WaitOptions = {}.  The default applies
\* to an option that is absent and to one that is undefined alike; both are
\* <<>> here.
timeout ==
  IF timeoutOption = <<>> THEN DEFAULT_WAIT_TIMEOUT ELSE timeoutOption[1]

\* const count = { failure: 0, success: 0, invalid: 0 }
ZeroCount == [success |-> 0, failure |-> 0, invalid |-> 0]

\* The locals of a call that has just been made.
InitLocals ==
  /\ pc = "start"
  /\ error = NoError
  /\ _deposits = <<>>
  /\ results = <<>>
  /\ count = ZeroCount
  /\ startTime = 0
  /\ now = 0
  /\ pendingDeposits = <<>>
  /\ i = 0
  /\ depositStatus = ""
  /\ account = NoAccount
  /\ partiallySignedPsbt = NoPsbt
  /\ txHash = ""
  /\ trace = <<>>
  /\ sleeps = 0
  /\ rounds = 0
  /\ origin = <<>>
  /\ pendingOrigin = <<>>
  /\ last = 0
  /\ outcome = <<>>
  /\ wake = 0

\* A waiter is called.
InitWait ==
  /\ call \in WaitCalls
  /\ deposits \in CallInputs
  /\ timeoutOption \in TimeoutOptions
  /\ provider = FullProvider
  /\ latency \in Latencies
  /\ suspended = <<>>
  /\ staker = NoStaker
  /\ process = NoProcess
  /\ signer = NoSigner
  /\ InitLocals

\* unstake or withdraw is called.
InitOp ==
  /\ call \in OpCalls
  /\ deposits \in OpInputs
  /\ timeoutOption = <<>>
  /\ provider \in Providers
  /\ latency = 0
  /\ suspended = <<>>
  /\ staker = NoStaker
  /\ process = NoProcess
  /\ signer = NoSigner
  /\ InitLocals

\* stake is called; it takes an amount and no deposits.
InitStake ==
  /\ call = "stake"
  /\ deposits = StringsInput(<<>>)
  /\ timeoutOption = <<>>
  /\ provider \in Providers
  /\ latency = 0
  /\ suspended = <<>>
  /\ staker = NoStaker
  /\ process = NoProcess
  /\ signer = NoSigner
  /\ InitLocals

Init == InitWait \/ InitOp \/ InitStake

(* ------------------------------ waiters -------------------------------- *)

\* _deposits = parseDepositsInput(deposits); queryDeposits sends one
\* getDeposit per deposit and awaits them all.  The first lines of the three
\* waiters, of unstake and of withdraw.
queryDeposits ==
  /\ call \in WaitCalls \cup OpCalls
  /\ pc = "start"
  /\ _deposits' = parseDepositsInput(deposits)
  /\ origin' = [k \in 1..Len(parseDepositsInput(deposits)) |-> k]
  /\ pc' = "queryDeposits"
  /\ UNCHANGED <<error, results, now>>
  /\ UNCHANGED <<argVars, waitVars, opVars>>

\* The head of while (true) at time t: the timeout check, then a new round
\* begins with the getDeposit of the first deposit.
LoopHead(t, start) ==
  IF TimeoutReached(t - start, timeout)
    THEN /\ pc' = "threw"
         /\ error' = TimeoutError(deposits)
         /\ UNCHANGED <<pendingDeposits, pendingOrigin, i, rounds>>
    ELSE /\ pc' = "getDeposit"
         /\ pendingDeposits' = <<>>
         /\ pendingOrigin' = <<>>
         /\ i' = 1
         /\ rounds' = rounds + 1
         /\ UNCHANGED error

\* The initial query is answered and checked; when the check passes, count
\* and startTime are set and the loop is entered.
waitQueried ==
  /\ call \in WaitCalls
  /\ pc = "queryDeposits"
  /\ \E rs \in [1..Len(_deposits) -> Answers] :
       /\ results' = rs
       /\ now' = now + latency
       /\ IF CheckQueried(call, deposits, _deposits, rs) # NoError
            THEN /\ pc' = "threw"
                 /\ error' = CheckQueried(call, deposits, _deposits, rs)
                 /\ UNCHANGED <<count, startTime, outcome, pendingDeposits,
                                pendingOrigin, i, rounds>>
            ELSE /\ count' = ZeroCount
                 /\ startTime' = StartTime(now, now')
                 /\ outcome' = [j \in 1..Len(rs) |-> "pending"]
                 /\ LoopHead(now', startTime')
  /\ UNCHANGED <<_deposits, origin, depositStatus, sleeps, last, wake>>
  /\ UNCHANGED <<argVars, opVars>>

\* One pass of the for loop: getDeposit of _deposits[i] is answered and its
\* status classified.  After the last deposit of the round the call goes to
\* sleep with the pending deposits, or returns when there is none.
waitPolled ==
  /\ call \in WaitCalls
  /\ pc = "getDeposit"
  /\ \E a \in Answers :
       /\ now' = now + latency
       /\ IF Throws(a)
            THEN /\ pc' = "threw"
                 /\ error' = IF a = Rejected THEN RemoteError ELSE TypeError
                 /\ UNCHANGED <<count, pendingDeposits, pendingOrigin, i,
                                depositStatus, outcome, _deposits, origin, last,
                                wake>>
            ELSE /\ depositStatus' = a
                 /\ last' = origin[i]
                 /\ outcome' = [outcome EXCEPT ![origin[i]] = Classify(call, a)]
                 /\ count' = Counted(count, Classify(call, a))
                 /\ IF Classify(call, a) = "pending"
                      THEN /\ pendingDeposits' = Append(pendingDeposits, _deposits[i])
                           /\ pendingOrigin' = Append(pendingOrigin, origin[i])
                      ELSE UNCHANGED <<pendingDeposits, pendingOrigin>>
                 /\ IF MoreToPoll(i, _deposits)
                      THEN /\ i' = i + 1
                           /\ pc' = "getDeposit"
                           /\ UNCHANGED <<_deposits, origin, wake>>
                      ELSE /\ i' = i
                           /\ IF HasPending(pendingDeposits')
                                THEN /\ _deposits' = Reassigned(_deposits, pendingDeposits')
                                     /\ origin' = Reassigned(origin, pendingOrigin')
                                     /\ wake' = now' + SleepTime(now' - startTime, timeout)
                                     /\ pc' = "sleep"
                                ELSE /\ pc' = "returned"
                                     /\ UNCHANGED <<_deposits, origin, wake>>
                 /\ UNCHANGED error
  /\ UNCHANGED <<results, startTime, sleeps, rounds>>
  /\ UNCHANGED <<argVars, opVars>>

\* await sleep(DEFAULT_WAIT_INTERVAL) is over: the timer set DEFAULT_WAIT_INTERVAL
\* after the sleep began has fired, no later than the timers of other
\* invocations that fire after it.  Back to the head of the loop.
waitSlept ==
  /\ call \in WaitCalls
  /\ pc = "sleep"
  /\ \A k \in 1..Len(suspended) :
       suspended[k].pc = "sleep" => wake <= suspended[k].wake
  /\ now' = IF now > wake THEN now ELSE wake
  /\ sleeps' = sleeps + 1
  /\ LoopHead(now', startTime)
  /\ UNCHANGED <<_deposits, results, origin, count, startTime, depositStatus,
                 last, outcome, wake>>
  /\ UNCHANGED <<argVars, opVars>>

(* -------------------------------- stake -------------------------------- *)

\* stake is entered: the staking PSBT is requested, or the provider cannot
\* sign PSBTs.
stakeCalled ==
  /\ call = "stake"
  /\ pc = "start"
  /\ IF HasSignPsbt(provider)
       THEN /\ pc' = "deposit.buildUnsignedPsbt"
            /\ trace' = Append(trace, Request("deposit.buildUnsignedPsbt", NoPsbt))
            /\ UNCHANGED error
       ELSE /\ pc' = "threw"
            /\ error' = UnsupportedError("signPsbt")
            /\ UNCHANGED trace
  /\ UNCHANGED <<_deposits, results, origin, now, account, partiallySignedPsbt,
                 txHash>>
  /\ UNCHANGED <<argVars, waitVars>>

\* The unsigned PSBT arrives; the wallet signs and finalizes all its inputs
\* and the result is submitted.
stakeBuilt ==
  /\ call = "stake"
  /\ pc = "deposit.buildUnsignedPsbt"
  /\ \/ /\ pc' = "threw"
        /\ error' = RemoteError
        /\ UNCHANGED trace
     \/ \E n \in 1..2 :
          /\ trace' = trace \o
               <<Request("provider.signPsbt", DepositPsbt(n)),
                 Request("deposit.submitFinalizedPsbt",
                         signPsbt(DepositPsbt(n), TRUE, <<>>))>>
          /\ pc' = "deposit.submitFinalizedPsbt"
          /\ UNCHANGED error
  /\ UNCHANGED <<_deposits, results, origin, now, account, partiallySignedPsbt,
                 txHash>>
  /\ UNCHANGED <<argVars, waitVars>>

\* The submission is answered with the hash of the staking transaction.
stakeSubmitted ==
  /\ call = "stake"
  /\ pc = "deposit.submitFinalizedPsbt"
  /\ \/ /\ pc' = "threw"
        /\ error' = RemoteError
        /\ UNCHANGED txHash
     \/ \E h \in {Hash(1), Hash(2)} :
          /\ txHash' = h
          /\ pc' = "returned"
          /\ UNCHANGED error
  /\ UNCHANGED <<_deposits, results, origin, now, account, partiallySignedPsbt,
                 trace>>
  /\ UNCHANGED <<argVars, waitVars>>

(* ------------------------------- unstake ------------------------------- *)

\* The initial query of unstake is answered and checked; then the message is
\* requested, or the provider cannot sign messages.
unstakeAnswered(rs) ==
  /\ call = "unstake"
  /\ pc = "queryDeposits"
  /\   /\ results' = rs
       /\ IF CheckQueried(call, deposits, _deposits, rs) # NoError
            THEN /\ pc' = "threw"
                 /\ error' = CheckQueried(call, deposits, _deposits, rs)
                 /\ UNCHANGED trace
            ELSE IF HasSignMessage(provider)
              THEN /\ pc' = "buildUnsignedMessage"
                   /\ trace' = Append(trace, Request("unstake.buildUnsignedMessage", NoPsbt))
                   /\ UNCHANGED error
              ELSE /\ pc' = "threw"
                   /\ error' = UnsupportedError("signMessage")
                   /\ UNCHANGED trace
  /\ UNCHANGED <<_deposits, origin, now, account, partiallySignedPsbt, txHash>>
  /\ UNCHANGED <<argVars, waitVars>>

\* Every answer of the remote service is possible.
unstakeQueried ==
  /\ call = "unstake"
  /\ pc = "queryDeposits"
  /\ \E rs \in [1..Len(_deposits) -> Answers] : unstakeAnswered(rs)

\* The message arrives, the wallet signs it (provider.signMessage(message),
\* no signature type given) and the signature is submitted; an error of the
\* wallet is the error of unstake.
unstakeBuilt ==
  /\ call = "unstake"
  /\ pc = "buildUnsignedMessage"
  /\ \E ok \in BOOLEAN :
       IF ok
         THEN IF signMessage("unstake", <<>>).error = NoError
           THEN /\ pc' = "submitSignature"
                /\ trace' = trace \o <<Request("provider.signMessage", NoPsbt),
                                       Request("unstake.submitSignature", NoPsbt)>>
                /\ UNCHANGED error
           ELSE /\ pc' = "threw"
                /\ error' = signMessage("unstake", <<>>).error
                /\ trace' = Append(trace, Request("provider.signMessage", NoPsbt))
         ELSE /\ pc' = "threw"
              /\ error' = RemoteError
              /\ UNCHANGED trace
  /\ UNCHANGED <<_deposits, results, origin, now, account, partiallySignedPsbt,
                 txHash>>
  /\ UNCHANGED <<argVars, waitVars>>

\* The submission is answered.
unstakeSubmitted ==
  /\ call = "unstake"
  /\ pc = "submitSignature"
  /\ \E ok \in BOOLEAN :
       IF ok
         THEN pc' = "returned" /\ UNCHANGED error
         ELSE pc' = "threw" /\ error' = RemoteError
  /\ UNCHANGED <<_deposits, results, origin, now>>
  /\ UNCHANGED <<argVars, waitVars, opVars>>

(* ------------------------------ withdraw ------------------------------- *)

\* The initial query of withdraw is answered and checked; then the account
\* is requested.
withdrawAnswered(rs) ==
  /\ call = "withdraw"
  /\ pc = "queryDeposits"
  /\   /\ results' = rs
       /\ IF CheckQueried(call, deposits, _deposits, rs) # NoError
            THEN /\ pc' = "threw"
                 /\ error' = CheckQueried(call, deposits, _deposits, rs)
                 /\ UNCHANGED trace
            ELSE /\ pc' = "getAccount"
                 /\ trace' = Append(trace, Request("user.getAccount", NoPsbt))
                 /\ UNCHANGED error
  /\ UNCHANGED <<_deposits, origin, now, account, partiallySignedPsbt, txHash>>
  /\ UNCHANGED <<argVars, waitVars>>

\* Every answer of the remote service is possible.
withdrawQueried ==
  /\ call = "withdraw"
  /\ pc = "queryDeposits"
  /\ \E rs \in [1..Len(_deposits) -> Answers] : withdrawAnswered(rs)

\* The account arrives.  Its pending PSBT goes to chain signing; without one
\* a new PSBT is requested, or the provider cannot sign PSBTs.
withdrawGotAccount ==
  /\ call = "withdraw"
  /\ pc = "getAccount"
  /\ \/ /\ pc' = "threw"
        /\ error' = RemoteError
        /\ UNCHANGED <<account, partiallySignedPsbt, trace>>
     \/ \E acc \in Accounts :
          /\ account' = acc
          /\ IF HasPendingSignPsbt(acc)
               THEN /\ partiallySignedPsbt' = acc.pendingSignPsbt[1]
                    /\ trace' = Append(trace,
                         Request("withdraw.chainSignPsbtAsync", acc.pendingSignPsbt[1]))
                    /\ pc' = "chainSignPsbtAsync"
                    /\ UNCHANGED error
               ELSE IF HasSignPsbt(provider)
                 THEN /\ trace' = Append(trace,
                           Request("withdraw.buildUnsignedPsbt", NoPsbt))
                      /\ pc' = "buildUnsignedPsbt"
                      /\ UNCHANGED <<error, partiallySignedPsbt>>
                 ELSE /\ pc' = "threw"
                      /\ error' = UnsupportedError("signPsbt")
                      /\ UNCHANGED <<partiallySignedPsbt, trace>>
  /\ UNCHANGED <<_deposits, results, origin, now, txHash>>
  /\ UNCHANGED <<argVars, waitVars>>

\* The unsigned PSBT arrives; the wallet signs one input per deposit without
\* finalizing, and the result goes to chain signing.
withdrawBuilt ==
  /\ call = "withdraw"
  /\ pc = "buildUnsignedPsbt"
  /\ \/ /\ pc' = "threw"
        /\ error' = RemoteError
        /\ UNCHANGED <<partiallySignedPsbt, trace>>
     \/ LET signed == signPsbt(UnsignedPsbt(Len(_deposits)), FALSE,
                               ToSignInputs(_deposits))
        IN /\ partiallySignedPsbt' = signed
           /\ trace' = trace \o
                <<Request("provider.signPsbt", UnsignedPsbt(Len(_deposits))),
                  Request("withdraw.chainSignPsbtAsync", signed)>>
           /\ pc' = "chainSignPsbtAsync"
           /\ UNCHANGED error
  /\ UNCHANGED <<_deposits, results, origin, now, account, txHash>>
  /\ UNCHANGED <<argVars, waitVars>>

\* chainSignPsbtAsync answers with an id, which is polled.
withdrawChainSigning ==
  /\ call = "withdraw"
  /\ pc = "chainSignPsbtAsync"
  /\ \/ /\ pc' = "threw"
        /\ error' = RemoteError
        /\ UNCHANGED trace
     \/ /\ trace' = Append(trace, Request("withdraw.pollChainSignedPsbt", NoPsbt))
        /\ pc' = "pollChainSignedPsbt"
        /\ UNCHANGED error
  /\ UNCHANGED <<_deposits, results, origin, now, account, partiallySignedPsbt,
                 txHash>>
  /\ UNCHANGED <<argVars, waitVars>>

\* The chain-signed PSBT arrives and is submitted.
withdrawChainSigned ==
  /\ call = "withdraw"
  /\ pc = "pollChainSignedPsbt"
  /\ \/ /\ pc' = "threw"
        /\ error' = RemoteError
        /\ UNCHANGED trace
     \/ /\ trace' = Append(trace,
             Request("withdraw.submitFinalizedPsbt", ChainSigned(partiallySignedPsbt)))
        /\ pc' = "submitFinalizedPsbt"
        /\ UNCHANGED error
  /\ UNCHANGED <<_deposits, results, origin, now, account, partiallySignedPsbt,
                 txHash>>
  /\ UNCHANGED <<argVars, waitVars>>

\* The submission is answered with the withdrawal transaction hash.
withdrawSubmitted ==
  /\ call = "withdraw"
  /\ pc = "submitFinalizedPsbt"
  /\ \/ /\ pc' = "threw"
        /\ error' = RemoteError
        /\ UNCHANGED txHash
     \/ /\ txHash' = "withdrawalTx"
        /\ pc' = "returned"
        /\ UNCHANGED error
  /\ UNCHANGED <<_deposits, results, origin, now, account, partiallySignedPsbt,
                 trace>>
  /\ UNCHANGED <<argVars, waitVars>>

(* --------------------------- specifications ---------------------------- *)

Next ==
  \/ stakeCalled
  \/ stakeBuilt
  \/ stakeSubmitted
  \/ queryDeposits
  \/ waitQueried
  \/ waitPolled
  \/ waitSlept
  \/ unstakeQueried
  \/ unstakeBuilt
  \/ unstakeSubmitted
  \/ withdrawQueried
  \/ withdrawGotAccount
  \/ withdrawBuilt
  \/ withdrawChainSigning
  \/ withdrawChainSigned
  \/ withdrawSubmitted

Spec == Init /\ [][Next]_vars

\* The waiters alone, with the fairness of the event loop: a continuation
\* whose await is over (the remote call answered, the timer fired) runs.
WaitNext ==
  \/ queryDeposits
  \/ waitQueried
  \/ waitPolled
  \/ waitSlept

\* The calls of InitWait with fewer than MaxLen deposits.
InitFair == InitWait /\ Len(parseDepositsInput(deposits)) < MaxLen

FairSpec == InitFair /\ [][WaitNext]_vars /\ WF_vars(WaitNext)

(* ------------------------------ index.ts ------------------------------- *)

\* An environment variable that is not set.
Unset == "<unset>"

\* process.env: each variable not set, set to the empty string, or set.
Environments ==
  [BITCOIN_NETWORK : {Unset, "", "testnet4"},
   BITCOIN_WIF_PRIVATE_KEY : {Unset, "", "cWif"},
   BITHIVE_RELAYER_RPC_URL : {Unset, "", "https://relayer"}]

\* process.argv.slice(2)
Arguments ==
  {<<>>, <<"stake">>, <<"unstake">>, <<"fee">>, <<"staker">>, <<"deposits">>,
   <<"partial-withdrawal">>, <<"basic">>, <<"">>, <<"stake", "unstake">>}

\* A test that takes a variable set to the empty string for present.
MissingIfUnset(value) == value = Unset

\* !process.env[name]: not set, or the empty string.
Missing(value) == value \in {Unset, ""}

\* args[0], undefined without arguments.
Example(argv) == IF argv = <<>> THEN "<undefined>" ELSE argv[1]

\* The examples main() compares args[0] with.
Examples == {"stake", "unstake", "fee", "staker", "deposits"}

\* The process starts: dotenv has filled process.env, the imports of
\* index.ts are about to evaluate config.ts.
InitMain ==
  /\ \E e \in Environments, a \in Arguments :
       process = [pc |-> "config", env |-> e, argv |-> a, config |-> <<>>,
                  relayer |-> FALSE, ran |-> <<>>, requests |-> 0,
                  stderr |-> <<>>, exitCode |-> 0]
  /\ call = "main"
  /\ deposits = StringsInput(<<>>)
  /\ timeoutOption = <<>>
  /\ provider = FullProvider
  /\ latency = 0
  /\ suspended = <<>>
  /\ staker = NoStaker
  /\ signer = NoSigner
  /\ InitLocals

\* config.ts is evaluated: network takes its default when BITCOIN_NETWORK is
\* missing; requiredEnv prints and exits with 1 at the first of
\* BITCOIN_WIF_PRIVATE_KEY and BITHIVE_RELAYER_RPC_URL that is missing.
loadConfig ==
  /\ process.pc = "config"
  /\ LET e == process.env
         network == IF Missing(e.BITCOIN_NETWORK) THEN "signet"
                                                  ELSE e.BITCOIN_NETWORK
     IN IF Missing(e.BITCOIN_WIF_PRIVATE_KEY)
          THEN process' = [process EXCEPT
                 !.pc = "exited", !.exitCode = 1,
                 !.stderr = Append(@, <<"Error: Missing environment variable",
                                        "BITCOIN_WIF_PRIVATE_KEY">>)]
          ELSE IF Missing(e.BITHIVE_RELAYER_RPC_URL)
            THEN process' = [process EXCEPT
                   !.pc = "exited", !.exitCode = 1,
                   !.stderr = Append(@, <<"Error: Missing environment variable",
                                          "BITHIVE_RELAYER_RPC_URL">>)]
            ELSE process' = [process EXCEPT
                   !.pc = "createRelayerClient",
                   !.config = <<[network |-> network,
                                 privateKey |-> e.BITCOIN_WIF_PRIVATE_KEY,
                                 relayerRpcUrl |-> e.BITHIVE_RELAYER_RPC_URL]>>]
  /\ UNCHANGED <<call, deposits, timeoutOption, provider, latency, suspended,
                 staker, signer>>
  /\ UNCHANGED <<pc, error, _deposits, results, origin, now>>
  /\ UNCHANGED <<waitVars, opVars>>

\* relayer.ts is evaluated: createRelayerClient({ url: config.relayerRpcUrl }).
createRelayerClient ==
  /\ process.pc = "createRelayerClient"
  /\ process' = [process EXCEPT !.pc = "main", !.relayer = TRUE]
  /\ UNCHANGED <<call, deposits, timeoutOption, provider, latency, suspended,
                 staker, signer>>
  /\ UNCHANGED <<pc, error, _deposits, results, origin, now>>
  /\ UNCHANGED <<waitVars, opVars>>

\* main(): the example named by args[0] is run, or 'Invalid example' is
\* printed.
main ==
  /\ process.pc = "main"
  /\ IF Example(process.argv) \in Examples
       THEN process' = [process EXCEPT
              !.pc = "example", !.ran = Append(@, Example(process.argv))]
       ELSE process' = [process EXCEPT
              !.pc = "done", !.stderr = Append(@, <<"Invalid example">>)]
  /\ UNCHANGED <<call, deposits, timeoutOption, provider, latency, suspended,
                 staker, signer>>
  /\ UNCHANGED <<pc, error, _deposits, results, origin, now>>
  /\ UNCHANGED <<waitVars, opVars>>

\* The example that runs sends a request to the relayer and awaits it.
exampleRequest ==
  /\ process.pc = "example"
  /\ process.requests < MaxRequests
  /\ process' = [process EXCEPT !.requests = @ + 1]
  /\ UNCHANGED <<call, deposits, timeoutOption, provider, latency, suspended,
                 staker, signer>>
  /\ UNCHANGED <<pc, error, _deposits, results, origin, now>>
  /\ UNCHANGED <<waitVars, opVars>>

\* The example returns, or throws and main().catch(console.error) prints.
exampleDone ==
  /\ process.pc = "example"
  /\ process.requests >= 1
  /\ \/ process' = [process EXCEPT !.pc = "done"]
     \/ process' = [process EXCEPT
           !.pc = "done", !.stderr = Append(@, <<"Error">>)]
  /\ UNCHANGED <<call, deposits, timeoutOption, provider, latency, suspended,
                 staker, signer>>
  /\ UNCHANGED <<pc, error, _deposits, results, origin, now>>
  /\ UNCHANGED <<waitVars, opVars>>

MainNext ==
  \/ loadConfig
  \/ createRelayerClient
  \/ main
  \/ exampleRequest
  \/ exampleDone

SpecMain == InitMain /\ [][MainNext]_vars

(* ----------------------- unstake wait by amount ------------------------ *)

\* waitUntilUnstaked addressed by a BTC amount (integer sats) instead of
\* deposit references.  The version of relayer.ts that takes an amount is not
\* among the sources (its callers are: example/partial-withdrawal.ts); what
\* follows is the behaviour the specification describes.
AmountInput(n) == [kind |-> "amount", value |-> n]

Amounts == {-3000, -1, 0, 1, 3000}

WaitByAmount == "waitUntilUnstaked(amount)"

\* A test that lets the amount 0 pass.
PositiveAmountOrZero(n) == n >= 0

\* The amount is a positive integer.
PositiveAmount(n) == n > 0

\* A waiter that treats an amount like a list of deposits.
AddressedByAmountNever(input) == FALSE

\* The input is an amount, not deposit references.
AddressedByAmount(input) == input.kind = "amount"

\* The error a zero or negative amount is rejected with.
InvalidAmountError ==
  [kind |-> "invalidAmount", names |-> <<>>, txHash |-> "", status |-> ""]

\* The waiter for unstaking is called with an amount.
InitAmount ==
  /\ call = WaitByAmount
  /\ deposits \in {AmountInput(n) : n \in Amounts}
  /\ timeoutOption \in TimeoutOptions
  /\ provider = FullProvider
  /\ latency = 0
  /\ suspended = <<>>
  /\ staker = NoStaker
  /\ process = NoProcess
  /\ signer = NoSigner
  /\ InitLocals

\* The waiter for unstaking is called with one deposit reference.
InitByReference ==
  /\ call = "waitUntilUnstaked"
  /\ deposits \in {StringInput(Hash(1)), StringsInput(<<Hash(1), Hash(2)>>)}
  /\ timeoutOption \in TimeoutOptions
  /\ provider = FullProvider
  /\ latency = 0
  /\ suspended = <<>>
  /\ staker = NoStaker
  /\ process = NoProcess
  /\ signer = NoSigner
  /\ InitLocals

\* The waiter is entered with an amount: a zero or negative amount is
\* rejected; a positive one is handed to the amount-based wait of the remote
\* service.  An amount taken for deposit references would fail in
\* queryDeposits, which maps over a list.
waitAmount ==
  /\ call = WaitByAmount
  /\ pc = "start"
  /\ IF ~AddressedByAmount(deposits)
       THEN /\ pc' = "threw"
            /\ error' = TypeError
            /\ UNCHANGED trace
       ELSE IF ~PositiveAmount(deposits.value)
         THEN /\ pc' = "threw"
              /\ error' = InvalidAmountError
              /\ UNCHANGED trace
         ELSE /\ pc' = "remote.waitUntilUnstaked"
              /\ trace' = Append(trace, Request("remote.waitUntilUnstaked", NoPsbt))
              /\ UNCHANGED error
  /\ UNCHANGED <<_deposits, results, origin, now, account, partiallySignedPsbt,
                 txHash>>
  /\ UNCHANGED <<argVars, waitVars>>

\* The amount-based wait of the remote service has ended.
waitAmountDone ==
  /\ call = WaitByAmount
  /\ pc = "remote.waitUntilUnstaked"
  /\ \E ok \in BOOLEAN :
       IF ok
         THEN pc' = "returned" /\ UNCHANGED error
         ELSE pc' = "threw" /\ error' = RemoteError
  /\ UNCHANGED <<_deposits, results, origin, now>>
  /\ UNCHANGED <<argVars, waitVars, opVars>>

AmountNext ==
  \/ waitAmount
  \/ waitAmountDone
  \/ queryDeposits
  \/ waitQueried
  \/ waitPolled
  \/ waitSlept

SpecAmount == (InitAmount \/ InitByReference) /\ [][AmountNext]_vars

(* ---------------------------- BitHiveStaker ---------------------------- *)

StakerMethods == {"stake", "unstake", "withdraw"}

\* The option wait of a method: not given, true or false.
WaitFlags == {<<>>, <<TRUE>>, <<FALSE>>}

\* The option timeout of a method: not given, or 1 ms.
StakerTimeouts == {<<>>, <<1>>}

\* A method that waits whatever the option says.
WaitAlways(option) == TRUE

\* { wait = true }: the value of the option, true when it is not given.
Wait(option) == IF option = <<>> THEN TRUE ELSE option[1]

\* The waiter each method calls after its operation.
WaiterOf(method) ==
  CASE method = "stake" -> "waitUntilStaked"
    [] method = "unstake" -> "waitUntilUnstaked"
    [] method = "withdraw" -> "waitUntilWithdrawn"

\* A method of BitHiveStaker is called and calls its operation with the
\* signer as provider; unstake and withdraw pass depositTxHash on.
InitStaker ==
  /\ \E m \in StakerMethods, w \in WaitFlags, t \in StakerTimeouts :
       /\ staker = [method |-> m, wait |-> w, timeout |-> t,
                    depositTxHash |-> IF m = "stake" THEN "" ELSE Hash(1),
                    pc |-> "op", result |-> ""]
       /\ call = m
       /\ deposits = IF m = "stake" THEN StringsInput(<<>>)
                                    ELSE StringInput(Hash(1))
  /\ timeoutOption = <<>>
  /\ provider = FullProvider
  /\ latency \in Latencies
  /\ suspended = <<>>
  /\ process = NoProcess
  /\ signer = NoSigner
  /\ InitLocals

\* A waiter is called with one deposit and without options.
InitDefault ==
  /\ call \in WaitCalls
  /\ deposits = StringInput(Hash(1))
  /\ timeoutOption = <<>>
  /\ provider = FullProvider
  /\ latency \in Latencies
  /\ suspended = <<>>
  /\ staker = NoStaker
  /\ process = NoProcess
  /\ signer = NoSigner
  /\ InitLocals

\* The operation of the method has ended.  Its error is the error of the
\* method.  Otherwise the method keeps the transaction hash and, if (wait),
\* calls its waiter with the deposit and { timeout }; without wait it returns.
stakerOpDone ==
  /\ staker.pc = "op"
  /\ pc \in {"returned", "threw"}
  /\ IF pc = "threw"
       THEN /\ staker' = [staker EXCEPT !.pc = "threw"]
            /\ UNCHANGED <<call, deposits, timeoutOption, pc, error, _deposits,
                           results, origin, waitVars>>
       ELSE IF Wait(staker.wait)
         THEN /\ staker' = [staker EXCEPT !.pc = "wait", !.result = txHash]
              /\ call' = WaiterOf(staker.method)
              /\ deposits' = StringInput(IF staker.method = "stake"
                                           THEN txHash
                                           ELSE staker.depositTxHash)
              /\ timeoutOption' = staker.timeout
              /\ pc' = "start"
              /\ error' = NoError
              /\ _deposits' = <<>>
              /\ results' = <<>>
              /\ origin' = <<>>
              /\ count' = ZeroCount
              /\ startTime' = 0
              /\ pendingDeposits' = <<>>
              /\ i' = 0
              /\ depositStatus' = ""
              /\ sleeps' = 0
              /\ rounds' = 0
              /\ pendingOrigin' = <<>>
              /\ last' = 0
              /\ outcome' = <<>>
              /\ wake' = 0
         ELSE /\ staker' = [staker EXCEPT !.pc = "returned", !.result = txHash]
              /\ UNCHANGED <<call, deposits, timeoutOption, pc, error, _deposits,
                             results, origin, waitVars>>
  /\ UNCHANGED <<provider, latency, suspended, process, signer, now, opVars>>

\* The waiter has ended: the method returns what it kept, or throws the
\* error of the waiter.
stakerWaitDone ==
  /\ staker.pc = "wait"
  /\ pc \in {"returned", "threw"}
  /\ staker' = [staker EXCEPT !.pc = pc]
  /\ UNCHANGED <<call, deposits, timeoutOption, provider, latency, suspended,
                 process, signer>>
  /\ UNCHANGED <<pc, error, _deposits, results, origin, now>>
  /\ UNCHANGED <<waitVars, opVars>>

StakerNext ==
  \/ stakeCalled
  \/ stakeBuilt
  \/ stakeSubmitted
  \/ queryDeposits
  \/ waitQueried
  \/ waitPolled
  \/ waitSlept
  \/ unstakeQueried
  \/ unstakeBuilt
  \/ unstakeSubmitted
  \/ withdrawQueried
  \/ withdrawGotAccount
  \/ withdrawBuilt
  \/ withdrawChainSigning
  \/ withdrawChainSigned
  \/ withdrawSubmitted
  \/ stakerOpDone
  \/ stakerWaitDone

SpecStaker == (InitStaker \/ InitDefault) /\ [][StakerNext]_vars

\* The locals of the running waiter invocation, as they stay behind while
\* another invocation runs.
Frame ==
  [call |-> call, deposits |-> deposits, timeoutOption |-> timeoutOption,
   pc |-> pc, error |-> error, _deposits |-> _deposits, results |-> results,
   count |-> count, startTime |-> startTime,
   pendingDeposits |-> pendingDeposits, i |-> i,
   depositStatus |-> depositStatus, sleeps |-> sleeps, rounds |-> rounds,
   origin |-> origin, pendingOrigin |-> pendingOrigin, last |-> last,
   outcome |-> outcome, wake |-> wake]

\* The frame of a waiter that has been called with (c, d, t) and has not run.
NewFrame(c, d, t) ==
  [call |-> c, deposits |-> d, timeoutOption |-> t,
   pc |-> "start", error |-> NoError, _deposits |-> <<>>, results |-> <<>>,
   count |-> ZeroCount, startTime |-> 0, pendingDeposits |-> <<>>, i |-> 0,
   depositStatus |-> "", sleeps |-> 0, rounds |-> 0, origin |-> <<>>,
   pendingOrigin |-> <<>>, last |-> 0, outcome |-> <<>>, wake |-> 0]

\* A count kept in one object of the module, which every invocation uses.
ResumedCountShared(own, other) == other

\* const count = {...} is a local of the invocation: the invocation that
\* resumes finds the count it left, whatever the other one counted.
ResumedCount(own, other) == own

\* The arguments of the two waiter calls that run interleaved.
TwoInputs == {StringInput(Hash(1)), StringsInput(<<Hash(1), Hash(2)>>)}

TwoTimeouts == {<<1>>, <<300000>>}

\* Two waiters have been called, for the same or for different operations,
\* the second for a deposit the first one waits for, too.
InitTwo ==
  /\ call \in WaitCalls
  /\ deposits \in TwoInputs
  /\ timeoutOption \in TwoTimeouts
  /\ provider = FullProvider
  /\ latency = 0
  /\ \E c \in {"waitUntilStaked", "waitUntilUnstaked"} :
       suspended = <<NewFrame(c, StringInput(Hash(1)), <<1>>)>>
  /\ staker = NoStaker
  /\ process = NoProcess
  /\ signer = NoSigner
  /\ InitLocals

\* The event loop: the running invocation is suspended at an await (or has
\* ended) and a continuation of the other invocation runs next.
switch ==
  /\ Len(suspended) = 1
  /\ suspended[1].pc \notin {"returned", "threw"}
  /\ call' = suspended[1].call
  /\ deposits' = suspended[1].deposits
  /\ timeoutOption' = suspended[1].timeoutOption
  /\ pc' = suspended[1].pc
  /\ error' = suspended[1].error
  /\ _deposits' = suspended[1]._deposits
  /\ results' = suspended[1].results
  /\ count' = ResumedCount(suspended[1].count, count)
  /\ startTime' = suspended[1].startTime
  /\ pendingDeposits' = suspended[1].pendingDeposits
  /\ i' = suspended[1].i
  /\ depositStatus' = suspended[1].depositStatus
  /\ sleeps' = suspended[1].sleeps
  /\ rounds' = suspended[1].rounds
  /\ origin' = suspended[1].origin
  /\ pendingOrigin' = suspended[1].pendingOrigin
  /\ last' = suspended[1].last
  /\ outcome' = suspended[1].outcome
  /\ wake' = suspended[1].wake
  /\ suspended' = <<Frame>>
  /\ UNCHANGED <<provider, latency, now, staker, process, signer, opVars>>

TwoNext ==
  \/ queryDeposits
  \/ waitQueried
  \/ waitPolled
  \/ waitSlept
  \/ switch

SpecTwo == InitTwo /\ [][TwoNext]_vars

(* ----------------------------- signMessage ---------------------------- *)

\* signMessage of a BitcoinSigner is called with a message and with or
\* without a signature type.
InitSign ==
  /\ call = "signMessage"
  /\ deposits = StringsInput(<<>>)
  /\ timeoutOption = <<>>
  /\ provider = FullProvider
  /\ latency = 0
  /\ suspended = <<>>
  /\ staker = NoStaker
  /\ process = NoProcess
  /\ \E m \in Messages, t \in SignatureOptions :
       signer = [pc |-> "start", message |-> m, signatureType |-> t,
                 signature |-> <<>>, error |-> NoError]
  /\ InitLocals

\* The call runs: it returns a signature or throws.
signMessageCall ==
  /\ call = "signMessage"
  /\ signer.pc = "start"
  /\ LET r == signMessage(signer.message, signer.signatureType)
     IN signer' = [signer EXCEPT
          !.pc = IF r.error = NoError THEN "returned" ELSE "threw",
          !.signature = r.signature,
          !.error = r.error]
  /\ UNCHANGED <<call, deposits, timeoutOption, provider, latency, suspended,
                 staker, process>>
  /\ UNCHANGED <<pc, error, _deposits, results, origin, now>>
  /\ UNCHANGED <<waitVars, opVars>>

\* unstake is called with a BitcoinSigner as provider.
InitUnstake == InitOp /\ call = "unstake" /\ provider = FullProvider

SignNext ==
  \/ signMessageCall
  \/ queryDeposits
  \/ unstakeQueried
  \/ unstakeBuilt
  \/ unstakeSubmitted

SpecSign == (InitSign \/ InitUnstake) /\ [][SignNext]_vars

\* parseDepositsInput alone, applied to every value of the type Deposits with
\* at most MaxLen elements.
ParseInputs ==
  {StringInput(h) : h \in TxHashes}
    \cup {StringsInput(hs) : hs \in UNION {[1..n -> TxHashes] : n \in 0..MaxLen}}
    \cup {DepositsInput(ds) : ds \in UNION {[1..n -> Deposit] : n \in 0..MaxLen}}

InitParse ==
  /\ call = "parseDepositsInput"
  /\ deposits \in ParseInputs
  /\ timeoutOption = <<>>
  /\ provider = FullProvider
  /\ latency = 0
  /\ suspended = <<>>
  /\ staker = NoStaker
  /\ process = NoProcess
  /\ signer = NoSigner
  /\ InitLocals

parseCall ==
  /\ call = "parseDepositsInput"
  /\ pc = "start"
  /\ _deposits' = parseDepositsInput(deposits)
  /\ pc' = "returned"
  /\ UNCHANGED <<error, results, now, origin>>
  /\ UNCHANGED <<argVars, waitVars, opVars>>

SpecParse == InitParse /\ [][parseCall]_vars

(* ------------------------------- claims -------------------------------- *)

\* The initial status query of the call has been answered.
Queried == pc \notin {"start", "queryDeposits"}

\* The precondition check of a waiter has passed.
Passed == call \in WaitCalls /\ outcome # <<>>

\* The status the claims name as the pending status of each waiter.
PendingStatusOf(c) ==
  CASE c = "waitUntilStaked" -> "DepositProcessing"
    [] c = "waitUntilUnstaked" -> "UnstakeProcessing"
    [] c = "waitUntilWithdrawn" -> "WithdrawProcessing"

\* The first position of rs that holds something else than status s.
FirstOther(rs, s) ==
  CHOOSE k \in 1..Len(rs) : rs[k] # s /\ \A j \in 1..(k - 1) : rs[j] = s

\* C1: when the initial status query of a waiter answers, for any of the
\* given deposits, a status other than the waiter's pending status
\* (DepositProcessing, UnstakeProcessing, WithdrawProcessing), be it one of
\* the waiter's own success or failure statuses, the call has thrown without
\* a polling round and without a sleep; when every deposit was answered with
\* a status, the error is the precondition error of the first such deposit.
C1_ImmediateFail ==
  (/\ call \in WaitCalls
   /\ Queried
   /\ \E k \in 1..Len(results) :
        results[k] \in Statuses \ {PendingStatusOf(call)})
  => /\ pc = "threw"
     /\ rounds = 0
     /\ sleeps = 0
     /\ now = latency
     /\ error.kind \in {"precondition", "typeError", "remote"}
     /\ (\A k \in 1..Len(results) : results[k] \in Statuses)
          => LET k == FirstOther(results, PendingStatusOf(call))
             IN error = [kind |-> "precondition", names |-> <<>>,
                         txHash |-> parseDepositsInput(deposits)[k].txHash,
                         status |-> results[k]]

\* A waiter for staking threw the precondition error on a deposit that is
\* already DepositConfirmed, the second of two.
C1_Witness ==
  /\ call = "waitUntilStaked"
  /\ pc = "threw"
  /\ error.kind = "precondition"
  /\ error.status = "DepositConfirmed"
  /\ error.txHash = "h2"
  /\ results = <<"DepositProcessing", "DepositConfirmed">>

\* The statuses the claims name as the success statuses of each waiter.
SuccessStatusesOf(c) ==
  CASE c = "waitUntilStaked" -> {"DepositConfirmed", "DepositConfirmedInvalid"}
    [] c = "waitUntilUnstaked" -> {"UnstakeConfirmed", "ChainSignProcessing"}
    [] c = "waitUntilWithdrawn" -> {"WithdrawConfirmed"}

\* A status that is a failure or an invalid (unexpected) status for waiter c.
FailureOrInvalid(c, status) ==
  status \in Statuses \ (SuccessStatusesOf(c) \cup {PendingStatusOf(c)})

\* C2: once the precondition check has passed, a waiter never throws because
\* it observed a failure or invalid status: the only errors are the timeout
\* (with a deposit still pending) and a failed status query.  A deposit
\* observed in such a status is counted as failure or invalid and is not in
\* the pending set, and the call has returned exactly when no deposit is
\* pending any more, however many ended in failure or invalid.
C2_NoRaiseOnFailure ==
  Passed =>
    /\ pc = "threw" => error.kind \in {"timeout", "remote", "typeError"}
    /\ (pc = "threw" /\ error.kind = "timeout")
         => \E k \in 1..Len(outcome) : outcome[k] = "pending"
    /\ (last # 0 /\ FailureOrInvalid(call, depositStatus))
         => /\ outcome[last] \in {"failure", "invalid"}
            /\ count.failure + count.invalid >= 1
            /\ \A k \in 1..Len(pendingOrigin) : pendingOrigin[k] # last
            /\ pc = "sleep" => \A k \in 1..Len(origin) : origin[k] # last
    /\ (pc = "returned") <=> (\A k \in 1..Len(outcome) : outcome[k] # "pending")

\* A waiter returned normally from its second round although both deposits
\* ended badly: one failed, one in a status of another operation.
C2_Witness ==
  /\ call = "waitUntilWithdrawn"
  /\ pc = "returned"
  /\ rounds = 2
  /\ outcome = <<"failure", "invalid">>
  /\ count = [success |-> 0, failure |-> 1, invalid |-> 1]

\* The waiter has thrown its timeout error.
TimedOut == pc = "threw" /\ error.kind = "timeout"

\* C3: for every timeout given, a waiter whose precondition check passed and
\* whose k-th deposit is answered as pending in every poll, with no status
\* query failing, eventually throws the timeout error: it does not return
\* normally and does not poll forever.  (Stated per deposit k: in every fair
\* run the timeout error is thrown, unless the precondition check or a
\* status query failed or the deposit was seen to leave pending.)
C3_TimeoutRaised ==
  \A k \in 1..MaxLen :
    <>(\/ TimedOut
       \/ pc = "threw" /\ error.kind # "timeout"
       \/ Passed /\ k > Len(outcome)
       \/ Passed /\ k <= Len(outcome) /\ outcome[k] # "pending")

\* With a timeout of 1 ms the timeout error was thrown after the first sleep,
\* the only deposit still pending.
C3_Witness ==
  /\ TimedOut
  /\ timeoutOption = <<1>>
  /\ sleeps = 1
  /\ rounds = 1
  /\ outcome = <<"pending">>

\* C4: when a waiter throws the timeout error, the error names exactly the
\* deposits that are still pending, in their order, and no deposit that
\* reached success, failure or invalid in an earlier round.  (Stated for
\* deposits given as transaction hashes, which the message prints as such.)
C4_TimeoutNamesPending ==
  (TimedOut /\ deposits.kind # "deposits")
  => /\ Len(error.names) = Len(_deposits)
     /\ \A k \in 1..Len(_deposits) : error.names[k] = _deposits[k].txHash

\* C5: convergence.  A waiter given one deposit that was answered as pending
\* in rounds 1 and 2 and with a success status in round 3 has returned
\* normally after exactly 2 sleeps, with success = 1, failure = 0 and
\* invalid = 0.
C5_Convergence ==
  (/\ call \in WaitCalls
   /\ Len(outcome) = 1
   /\ rounds = 3
   /\ depositStatus \in SuccessStatusesOf(call))
  => /\ pc = "returned"
     /\ error = NoError
     /\ sleeps = 2
     /\ count = [success |-> 1, failure |-> 0, invalid |-> 0]

\* waitUntilStaked returned from its third round, after two sleeps, on
\* seeing its one deposit DepositConfirmed.
C5_Witness ==
  /\ call = "waitUntilStaked"
  /\ deposits = StringInput("h1")
  /\ pc = "returned"
  /\ rounds = 3
  /\ sleeps = 2
  /\ depositStatus = "DepositConfirmed"
  /\ count.success = 1

\* 1 when the deposit's class is the bucket, else 0.
InBucket(class, bucket) == IF class = bucket THEN 1 ELSE 0

\* C6: partial batch completion.  Of 3 deposits the first resolved to
\* success and the second to failure.  While the third is pending the waiter
\* has not returned, and it throws nothing but the timeout or a failed
\* query; once the third has left pending the waiter has returned normally,
\* in that very round, and the counts hold success = 1 and failure = 1 for
\* the first two plus one for the class of the third: each deposit is
\* counted exactly once.  When the third was polled in round 3, that is
\* after exactly 2 sleeps.
C6_PartialBatch ==
  (/\ call \in {"waitUntilStaked", "waitUntilWithdrawn"}
   /\ Len(outcome) = 3
   /\ outcome[1] = "success"
   /\ outcome[2] = "failure")
  => /\ outcome[3] = "pending" => pc # "returned"
     /\ pc = "threw" => /\ error.kind \in {"timeout", "remote", "typeError"}
                        /\ outcome[3] = "pending"
     /\ outcome[3] # "pending"
          => /\ pc = "returned"
             /\ count.success = 1 + InBucket(outcome[3], "success")
             /\ count.failure = 1 + InBucket(outcome[3], "failure")
             /\ count.invalid = InBucket(outcome[3], "invalid")
             /\ count.success + count.failure + count.invalid = 3
             /\ (rounds = 3 /\ origin = <<3>>) => sleeps = 2

\* waitUntilWithdrawn returned in round 3, in which only the third deposit
\* was still polled, with success = 2 and failure = 1.
C6_Witness ==
  /\ call = "waitUntilWithdrawn"
  /\ pc = "returned"
  /\ rounds = 3
  /\ origin = <<3>>
  /\ last = 3
  /\ outcome = <<"success", "failure", "success">>
  /\ count = [success |-> 2, failure |-> 1, invalid |-> 0]

\* C7: a waiter returns normally only after every given deposit has been
\* observed in a success status of its operation (for waitUntilStaked:
\* DepositConfirmed or DepositConfirmedInvalid).
C7_ReturnsOnlyWhenAllSucceeded ==
  (call \in WaitCalls /\ pc = "returned")
  => /\ \A k \in 1..Len(outcome) : outcome[k] = "success"
     /\ depositStatus \in SuccessStatusesOf(call)
     /\ count.success = Len(outcome)

\* C8: normalization.  parseDepositsInput maps a hash h to <<(h, 0)>>, a list
\* of hashes to one (hash, 0) per hash in the same order, and returns a list
\* of (hash, vout) pairs unchanged; so h, <<h>> and <<(h, 0)>> all give
\* <<(h, 0)>>, length and order are kept, and parsing the result again
\* changes nothing.
C8_Normalization ==
  (call = "parseDepositsInput" /\ pc = "returned")
  => /\ deposits.kind = "string"
          => _deposits = <<[txHash |-> deposits.value, vout |-> 0]>>
     /\ deposits.kind = "strings"
          => /\ Len(_deposits) = Len(deposits.value)
             /\ \A k \in 1..Len(deposits.value) :
                  _deposits[k] = [txHash |-> deposits.value[k], vout |-> 0]
     /\ deposits.kind = "deposits" => _deposits = deposits.value
     /\ \A h \in TxHashes :
          (\/ deposits.kind = "string" /\ deposits.value = h
           \/ deposits.kind = "strings" /\ deposits.value = <<h>>
           \/ deposits.kind = "deposits"
                /\ deposits.value = <<[txHash |-> h, vout |-> 0]>>)
          => _deposits = <<[txHash |-> h, vout |-> 0]>>
     /\ parseDepositsInput(DepositsInput(_deposits)) = _deposits

\* The list <<h2, h1>> was parsed to <<(h2, 0), (h1, 0)>>.
C8_Witness ==
  /\ call = "parseDepositsInput"
  /\ pc = "returned"
  /\ deposits.kind = "strings"
  /\ deposits.value = <<"h2", "h1">>
  /\ _deposits = <<[txHash |-> "h2", vout |-> 0], [txHash |-> "h1", vout |-> 0]>>

\* C9: when the requested deposits are not found at the remote service (the
\* initial status query yields a deposit record for none of them), a waiter,
\* unstake and withdraw throw the 'not found' error at once: no polling
\* round, no sleep, no further request.
C9_NotFoundError ==
  (/\ call \in WaitCalls \cup OpCalls
   /\ Queried
   /\ \A k \in 1..Len(results) : results[k] \in {NoRecord, Rejected})
  => /\ pc = "threw"
     /\ error.kind = "notFound"
     /\ rounds = 0
     /\ sleeps = 0
     /\ trace = <<>>

\* The positions of the trace that hold a request of the given method.
Sent(method) == {k \in 1..Len(trace) : trace[k].method = method}

\* C10: while the account record withdraw fetched carries a pending PSBT,
\* withdraw requests no new unsigned PSBT and signs nothing locally; what it
\* sends to chain signing is the pending PSBT of the account.  In every
\* withdraw at most one unsigned withdrawal artifact is in play: the pending
\* one of the account or one newly built, never both, never two.
C10_PendingPsbtBlocksBuild ==
  call = "withdraw" =>
    /\ account.pendingSignPsbt # <<>>
         => /\ Sent("withdraw.buildUnsignedPsbt") = {}
            /\ Sent("provider.signPsbt") = {}
            /\ pc # "buildUnsignedPsbt"
            /\ partiallySignedPsbt = account.pendingSignPsbt[1]
            /\ pc # "threw" => Sent("withdraw.chainSignPsbtAsync") # {}
            /\ \A k \in Sent("withdraw.chainSignPsbtAsync") :
                 trace[k].psbt = account.pendingSignPsbt[1]
    /\ Cardinality(Sent("withdraw.buildUnsignedPsbt"))
         + (IF account.pendingSignPsbt # <<>> THEN 1 ELSE 0) <= 1

\* withdraw returned after sending the pending PSBT of the account to chain
\* signing, without a build request.
C10_Witness ==
  /\ call = "withdraw"
  /\ pc = "returned"
  /\ provider.signPsbt
  /\ account.pendingSignPsbt = <<PendingSignPsbt>>
  /\ Len(trace) = 4
  /\ trace[2] = Request("withdraw.chainSignPsbtAsync", PendingSignPsbt)

\* The provider lacks the capability the called operation signs with.
LacksCapability ==
  \/ call \in {"stake", "withdraw"} /\ ~provider.signPsbt
  \/ call = "unstake" /\ ~provider.signMessage

\* The requests that build, sign locally, chain-sign or submit.
BuildMethods ==
  {"deposit.buildUnsignedPsbt", "unstake.buildUnsignedMessage",
   "withdraw.buildUnsignedPsbt"}

LocalSignMethods == {"provider.signPsbt", "provider.signMessage"}

ChainSignMethods ==
  {"withdraw.chainSignPsbtAsync", "withdraw.pollChainSignedPsbt"}

SubmitMethods ==
  {"deposit.submitFinalizedPsbt", "unstake.submitSignature",
   "withdraw.submitFinalizedPsbt"}

SentAny(methods) == {k \in 1..Len(trace) : trace[k].method \in methods}

\* The statuses in which a deposit is ready for unstake and for withdraw.
ReadySet(c) ==
  CASE c = "unstake" -> {"DepositConfirmed", "DepositConfirmedInvalid"}
    [] c = "withdraw" -> {"UnstakeConfirmed", "ChainSignProcessing"}

\* The remote service has answered the initial query with a status for
\* every deposit.
AllAnswered ==
  /\ Len(results) >= 1
  /\ \A k \in 1..Len(results) : results[k] \in Statuses

\* C11 (as stated): when the provider lacks the capability the operation
\* needs (signPsbt for stake and withdraw, signMessage for unstake), the
\* operation sends no build, chain-sign or submit request and, whatever the
\* statuses of the deposits and the state of the account, ends by raising
\* the 'is not supported' error.
C11_UnsupportedAlwaysRaised ==
  (LacksCapability /\ (call = "stake" \/ (Queried /\ AllAnswered))) =>
    /\ SentAny(BuildMethods \cup ChainSignMethods \cup SubmitMethods) = {}
    /\ pc # "returned"
    /\ pc = "threw" => error.kind \in {"unsupported", "remote"}

\* C11 (amended): when the provider lacks the capability, the operation
\* sends no build request, signs nothing locally and submits nothing signed
\* locally.  stake raises 'signPsbt is not supported' before any request.
\* unstake raises 'signMessage is not supported' when the status check of
\* the deposits has passed, and the error of that check otherwise.  withdraw
\* raises 'signPsbt is not supported' when the check has passed and the
\* account has no pending PSBT; with a pending PSBT it needs no local
\* signature and sends exactly that PSBT to chain signing and on to
\* submission.
C11_UnsupportedNoBuild ==
  LacksCapability =>
    /\ SentAny(BuildMethods \cup LocalSignMethods) = {}
    /\ SentAny({"deposit.submitFinalizedPsbt", "unstake.submitSignature"}) = {}
    /\ call = "stake" =>
         /\ trace = <<>>
         /\ pc \in {"start", "threw"}
         /\ pc = "threw" => error = UnsupportedError("signPsbt")
    /\ call = "unstake" =>
         /\ trace = <<>>
         /\ pc \in {"start", "queryDeposits", "threw"}
         /\ (pc = "threw" /\ AllAnswered)
              => IF \A k \in 1..Len(results) : results[k] \in ReadySet(call)
                   THEN error = UnsupportedError("signMessage")
                   ELSE error.kind = "precondition"
    /\ call = "withdraw" =>
         /\ (pc = "threw" /\ Sent("user.getAccount") = {} /\ AllAnswered)
              => error.kind = "precondition"
         /\ (Sent("user.getAccount") # {} /\ pc # "getAccount"
               /\ account.pendingSignPsbt = <<>>)
              => pc = "threw" /\ error.kind \in {"unsupported", "remote"}
         /\ error.kind = "unsupported"
              => /\ error = UnsupportedError("signPsbt")
                 /\ account.pendingSignPsbt = <<>>
                 /\ trace = <<Request("user.getAccount", NoPsbt)>>
         /\ SentAny(ChainSignMethods \cup SubmitMethods) # {}
              => /\ account.pendingSignPsbt # <<>>
                 /\ trace[2] = Request("withdraw.chainSignPsbtAsync",
                                       account.pendingSignPsbt[1])
         /\ pc = "returned"
              => trace[Len(trace)] =
                   Request("withdraw.submitFinalizedPsbt",
                           ChainSigned(account.pendingSignPsbt[1]))

\* withdraw with a provider that cannot sign PSBTs raised the error after the
\* account arrived without a pending PSBT.
C11_Witness ==
  /\ call = "withdraw"
  /\ ~provider.signPsbt
  /\ pc = "threw"
  /\ error = UnsupportedError("signPsbt")
  /\ AllAnswered
  /\ trace = <<Request("user.getAccount", NoPsbt)>>

\* The first position of rs whose answer is outside the set.
FirstOutside(rs, set) ==
  CHOOSE k \in 1..Len(rs) : rs[k] \notin set /\ \A j \in 1..(k - 1) : rs[j] \in set

\* C12: unstake and withdraw send a request (account query, build, local
\* signature, chain signing, submission) only when the initial query found
\* every referenced deposit in the ready set of the operation.  One deposit
\* with a status outside the ready set makes the operation throw with no
\* request sent; when every deposit was answered with a status, the error
\* names the first such deposit and its status.
C12_ReadySetGuards ==
  call \in OpCalls =>
    /\ trace # <<>>
         => /\ Len(results) = Len(parseDepositsInput(deposits))
            /\ Len(results) >= 1
            /\ \A k \in 1..Len(results) : results[k] \in ReadySet(call)
    /\ (Queried /\ \E k \in 1..Len(results) :
                     results[k] \in Statuses \ ReadySet(call))
         => /\ pc = "threw"
            /\ trace = <<>>
            /\ error.kind \in {"precondition", "typeError", "remote"}
            /\ (\A k \in 1..Len(results) : results[k] \in Statuses)
                 => LET k == FirstOutside(results, ReadySet(call))
                    IN error = [kind |-> "precondition", names |-> <<>>,
                                txHash |-> parseDepositsInput(deposits)[k].txHash,
                                status |-> results[k]]

\* withdraw of two deposits threw on the second, which is WithdrawConfirmed,
\* though the first is ready.
C12_Witness ==
  /\ call = "withdraw"
  /\ pc = "threw"
  /\ results = <<"UnstakeConfirmed", "WithdrawConfirmed">>
  /\ error.kind = "precondition"
  /\ error.txHash = "h2"
  /\ error.status = "WithdrawConfirmed"
  /\ trace = <<>>

\* The given positions of a call whose latest status the call classified so.
Classified(f, class) ==
  {k \in 1..Len(f.outcome) : f.outcome[k] = class}

\* The timeout of the call of frame f.
TimeoutOf(f) ==
  IF f.timeoutOption = <<>> THEN 60 * 60 * 1000 ELSE f.timeoutOption[1]

\* The locals and the outcome of the invocation of frame f follow from what
\* that invocation was given and observed itself.
OwnObservationsOnly(f) ==
  /\ f.outcome = <<>> => f.count = [success |-> 0, failure |-> 0, invalid |-> 0]
  /\ (f.rounds = 1 /\ f.i = 1 /\ f.pc = "getDeposit")
       => f.count = [success |-> 0, failure |-> 0, invalid |-> 0]
  /\ f.outcome # <<>> =>
       /\ Len(f.outcome) = Len(parseDepositsInput(f.deposits))
       /\ f.count.success = Cardinality(Classified(f, "success"))
       /\ f.count.failure = Cardinality(Classified(f, "failure"))
       /\ f.count.invalid = Cardinality(Classified(f, "invalid"))
       /\ f.startTime + f.sleeps * (2 * 60 * 1000) <= now
  /\ f.pc = "sleep" =>
       /\ {f.origin[k] : k \in 1..Len(f.origin)} = Classified(f, "pending")
       /\ Len(f._deposits) = Cardinality(Classified(f, "pending"))
       /\ \A k \in 1..Len(f._deposits) :
            /\ f._deposits[k] = parseDepositsInput(f.deposits)[f.origin[k]]
            /\ k > 1 => f.origin[k - 1] < f.origin[k]
  /\ (f.pc \in {"getDeposit", "returned"} /\ f.sleeps >= 1)
       => /\ f.wake - f.startTime <= TimeoutOf(f)
          /\ f.startTime + f.sleeps * (2 * 60 * 1000) <= f.wake
  /\ (f.pc = "threw" /\ f.error.kind = "timeout") =>
       /\ f.sleeps >= 1
       /\ f.wake - f.startTime > TimeoutOf(f)
       /\ f.startTime + f.sleeps * (2 * 60 * 1000) <= f.wake
       /\ f.rounds = f.sleeps
       /\ Classified(f, "pending") # {}
  /\ f.pc = "returned" =>
       /\ Classified(f, "pending") = {}
       /\ f.rounds = f.sleeps + 1

\* C13: when two waiter calls are interleaved at their awaits, the counts,
\* the pending list, the deadline and the outcome of each of them follow from
\* the statuses that call observed itself: the counts start from 0 and equal
\* the numbers of its own deposits it classified as success, failure and
\* invalid, the pending list holds its own deposits still pending, it times
\* out when its own timer fires later than its own timeout after its own
\* start, and it returns when none of its own deposits is pending.
C13_Isolation ==
  /\ OwnObservationsOnly(Frame)
  /\ \A k \in 1..Len(suspended) : OwnObservationsOnly(suspended[k])

\* Two calls ran interleaved: the running one returned after a sleep with
\* both its deposits succeeded, the other one, whose wait began at the same
\* time, timed out on the deposit both wait for.
C13_Witness ==
  /\ Len(suspended) = 1
  /\ call = "waitUntilStaked"
  /\ pc = "returned"
  /\ sleeps = 1
  /\ count = [success |-> 2, failure |-> 0, invalid |-> 0]
  /\ suspended[1].call = "waitUntilStaked"
  /\ suspended[1].pc = "threw"
  /\ suspended[1].error.kind = "timeout"
  /\ suspended[1].count = [success |-> 0, failure |-> 0, invalid |-> 0]
  /\ suspended[1].startTime = 0

C15_StakerDefaultHalfHour ==
  (/\ staker.method \in StakerMethods
   /\ staker.timeout = <<>>
   /\ staker.pc = "wait"
   /\ pc = "getDeposit"
   /\ i = 1)
  => now - startTime <= 1800000

\* C16: a method of BitHiveStaker called with wait = false never calls its
\* waiter: no status query of a waiter, no polling round, no sleep, and it
\* returns when its operation returns.  With wait omitted or true it returns
\* only after its waiter, called for the deposit of the operation, has
\* returned.  stake and withdraw return the transaction hash their
\* submission answered with, whatever wait is.
C16_WaitFlag ==
  staker.method \in StakerMethods =>
    /\ staker.wait = <<FALSE>> =>
         /\ call = staker.method
         /\ staker.pc # "wait"
         /\ rounds = 0
         /\ sleeps = 0
         /\ results # <<>> => Len(results) = 1 /\ pc # "queryDeposits"
         /\ staker.pc = "returned" =>
              (pc = "returned" /\ staker.result = txHash)
    /\ staker.wait \in {<<>>, <<TRUE>>} =>
         /\ staker.pc = "returned" =>
              /\ call = WaiterOf(staker.method)
              /\ pc = "returned"
              /\ rounds >= 1
              /\ deposits.kind = "string"
              /\ deposits.value = (IF staker.method = "stake"
                                     THEN txHash ELSE staker.depositTxHash)
         /\ staker.pc = "wait" => call = WaiterOf(staker.method)
         /\ call \in WaitCalls =>
              /\ staker.pc \in {"wait", "returned", "threw"}
              /\ staker.result = txHash
              /\ trace # <<>>
              /\ trace[Len(trace)].method \in SubmitMethods
    /\ (staker.pc = "returned" /\ staker.method \in {"stake", "withdraw"}) =>
         /\ staker.result = txHash
         /\ staker.result \in {"h1", "h2", "withdrawalTx"}
         /\ trace[Len(trace)].method \in
              {"deposit.submitFinalizedPsbt", "withdraw.submitFinalizedPsbt"}

\* BitHiveStaker.stake with wait = false returned the hash of the staking
\* transaction without a status query.
C16_Witness ==
  /\ staker.method = "stake"
  /\ staker.wait = <<FALSE>>
  /\ staker.pc = "returned"
  /\ staker.result = "h2"
  /\ call = "stake"
  /\ results = <<>>
  /\ rounds = 0

NamedScenarios ==
  {"stake", "unstake", "fee", "staker", "deposits", "partial-withdrawal"}

\* C19: command dispatch.  When the first positional argument is one of
\* stake, unstake, fee, staker, deposits, partial-withdrawal, the process
\* runs exactly the scenario of that name; for any other argument, or none,
\* it prints an error and runs no scenario and sends no relayer request.
C19_Dispatch ==
  process.pc \in {"example", "done"} =>
    IF process.argv # <<>> /\ process.argv[1] \in NamedScenarios
      THEN process.ran = <<process.argv[1]>>
      ELSE /\ process.ran = <<>>
           /\ process.requests = 0
           /\ process.stderr = <<<<"Invalid example">>>>

\* C20 (as stated): when any of the network selector, the WIF private key
\* and the relayer base URL is missing from the environment, the process
\* terminates with a diagnostic before the relayer client is created and
\* before any remote call.
C20_AllThreeRequired ==
  (/\ process.pc # "none"
   /\ \/ process.env.BITCOIN_NETWORK = "<unset>"
      \/ process.env.BITCOIN_WIF_PRIVATE_KEY = "<unset>"
      \/ process.env.BITHIVE_RELAYER_RPC_URL = "<unset>")
  => /\ process.pc \notin {"main", "example", "done"}
     /\ ~process.relayer
     /\ process.ran = <<>>
     /\ process.requests = 0

\* C20 (amended): when the WIF private key or the relayer base URL is
\* missing (not set, or empty), the process prints 'Error: Missing
\* environment variable' with the name of the first missing one and exits
\* with code 1 before the relayer client is created, before an example runs
\* and before any remote call.  A missing network selector does not end the
\* process: the configuration gets a default network.
C20_KeyAndUrlRequired ==
  process.pc # "none" =>
    /\ (\/ process.env.BITCOIN_WIF_PRIVATE_KEY \in {"<unset>", ""}
        \/ process.env.BITHIVE_RELAYER_RPC_URL \in {"<unset>", ""})
         => /\ process.pc \in {"config", "exited"}
            /\ ~process.relayer
            /\ process.config = <<>>
            /\ process.ran = <<>>
            /\ process.requests = 0
            /\ process.pc = "exited" =>
                 /\ process.exitCode = 1
                 /\ process.stderr =
                      << <<"Error: Missing environment variable",
                           IF process.env.BITCOIN_WIF_PRIVATE_KEY \in {"<unset>", ""}
                             THEN "BITCOIN_WIF_PRIVATE_KEY"
                             ELSE "BITHIVE_RELAYER_RPC_URL">> >>
    /\ (/\ process.env.BITCOIN_WIF_PRIVATE_KEY \notin {"<unset>", ""}
        /\ process.env.BITHIVE_RELAYER_RPC_URL \notin {"<unset>", ""})
         => /\ process.pc # "exited"
            /\ process.exitCode = 0
            /\ process.pc # "config" =>
                 /\ Len(process.config) = 1
                 /\ process.config[1].network \notin {"<unset>", ""}
                 /\ process.config[1].privateKey = process.env.BITCOIN_WIF_PRIVATE_KEY
                 /\ process.config[1].relayerRpcUrl = process.env.BITHIVE_RELAYER_RPC_URL
    /\ process.relayer => process.config # <<>>
    /\ process.requests > 0 => process.relayer

\* The process exited on an empty relayer URL, the private key being set.
C20_Witness ==
  /\ process.pc = "exited"
  /\ process.env.BITCOIN_WIF_PRIVATE_KEY = "cWif"
  /\ process.env.BITHIVE_RELAYER_RPC_URL = ""
  /\ process.exitCode = 1
  /\ ~process.relayer
  /\ process.stderr =
       << <<"Error: Missing environment variable", "BITHIVE_RELAYER_RPC_URL">> >>

\* C21: when BITCOIN_NETWORK is not set, the network of the configuration
\* is testnet4.
C21_DefaultTestnet4 ==
  (process.config # <<>> /\ process.env.BITCOIN_NETWORK = "<unset>")
  => process.config[1].network = "testnet4"

\* C22: signMessage called with a signature type other than ECDSA throws the
\* 'Unimplemented' error and returns no signature; called with ECDSA or with
\* the type omitted it returns the ECDSA signature of the message and throws
\* nothing.  unstake, which passes no type, never ends with the
\* 'Unimplemented' error: once the message has arrived, the signature is
\* made and submitted.
C22_SignMessageUnimplemented ==
  /\ signer.pc \in {"returned", "threw"} =>
       IF signer.signatureType \in
            {<<>>, <<[kind |-> "ECDSA", address |-> ""]>>}
         THEN /\ signer.pc = "returned"
              /\ signer.error.kind = "none"
              /\ signer.signature =
                   <<[scheme |-> "ECDSA", message |-> signer.message]>>
         ELSE /\ signer.pc = "threw"
              /\ signer.error.kind = "unimplemented"
              /\ signer.signature = <<>>
  /\ call = "unstake" =>
       /\ error.kind # "unimplemented"
       /\ \A k \in 1..Len(trace) :
            trace[k].method = "provider.signMessage"
              => /\ k < Len(trace)
                 /\ trace[k + 1].method = "unstake.submitSignature"

\* signMessage threw 'Unimplemented' on a Bip322Full signature type.
C22_Witness ==
  /\ call = "signMessage"
  /\ signer.pc = "threw"
  /\ signer.signatureType = <<[kind |-> "Bip322Full", address |-> "tb1qaddress"]>>
  /\ signer.message = "unstake h1"
  /\ signer.error.kind = "unimplemented"
  /\ signer.signature = <<>>

\* The deposits of the call whose latest class is the given one.
InClass(class) == {k \in 1..Len(outcome) : outcome[k] = class}

\* C23: count conservation.  With N the length of the normalized list of
\* deposits, once the precondition check of a waiter has passed,
\* success + failure + invalid + (deposits still pending) = N; at the end of
\* a polling round the deposits still pending are those of pendingDeposits;
\* at normal return none is pending and success + failure + invalid = N,
\* for waitUntilUnstaked success + invalid = N with no failure counted.  No
\* step of the call makes a counter smaller.
C23_CountConservation ==
  /\ [](Passed =>
          LET N == Len(parseDepositsInput(deposits))
              sum == count.success + count.failure + count.invalid
          IN /\ Len(outcome) = N
             /\ sum + Cardinality(InClass("pending")) = N
             /\ pc \in {"sleep", "returned"}
                  => sum + Len(pendingDeposits) = N
             /\ pc = "returned" => sum = N
             /\ call = "waitUntilUnstaked"
                  => /\ count.failure = 0
                     /\ pc = "returned" => count.success + count.invalid = N)
  /\ [][(Passed /\ Passed')
          => /\ count'.success >= count.success
             /\ count'.failure >= count.failure
             /\ count'.invalid >= count.invalid]_vars

\* At the end of its second round a waiter for three deposits has counted
\* one success and one failure and goes to sleep with the third pending.
C23_Witness ==
  /\ call = "waitUntilStaked"
  /\ pc = "sleep"
  /\ rounds = 2
  /\ Len(outcome) = 3
  /\ count = [success |-> 1, failure |-> 1, invalid |-> 0]
  /\ Len(pendingDeposits) = 1

\* The given positions of the elements of a list of positions.
Positions(list) == {list[k] : k \in 1..Len(list)}

\* C24: the pending set only shrinks.  The deposits a polling round goes
\* through are exactly those observed pending in the round before (all of
\* them in the first round), in their order: when a round begins and while
\* the call sleeps, _deposits holds exactly the deposits whose latest class
\* is pending; within a round, the deposits not yet polled and those pushed
\* on pendingDeposits are the pending ones.  A deposit classified success,
\* failure or invalid keeps its class in every later step, is in no later
\* list and is counted once, whatever the remote service would answer for it
\* afterwards.
C24_PendingOnlyShrinks ==
  /\ [](Passed =>
          LET parsed == parseDepositsInput(deposits)
              sum == count.success + count.failure + count.invalid
          IN /\ Len(origin) = Len(_deposits)
             /\ \A k \in 1..Len(origin) : _deposits[k] = parsed[origin[k]]
             /\ \A j, k \in 1..Len(origin) : j < k => origin[j] < origin[k]
             /\ Len(pendingOrigin) = Len(pendingDeposits)
             /\ \A k \in 1..Len(pendingOrigin) :
                  pendingDeposits[k] = parsed[pendingOrigin[k]]
             /\ (pc = "sleep" \/ (pc = "getDeposit" /\ i = 1))
                  => Positions(origin) = InClass("pending")
             /\ pc = "getDeposit"
                  => {origin[k] : k \in i..Len(origin)} \cup Positions(pendingOrigin)
                       = InClass("pending")
             /\ sum = Len(outcome) - Cardinality(InClass("pending")))
  /\ [][(Passed /\ Passed')
          => /\ \A k \in 1..Len(outcome) :
                  outcome[k] # "pending" => outcome'[k] = outcome[k]
             /\ Positions(origin') \subseteq Positions(origin)]_vars

\* The third round of a waiter for three deposits begins with the third
\* deposit alone: the first left the list after round 1, the second after
\* round 2.
C24_Witness ==
  /\ call = "waitUntilWithdrawn"
  /\ pc = "getDeposit"
  /\ rounds = 3
  /\ i = 1
  /\ origin = <<3>>
  /\ _deposits = <<[txHash |-> "h3", vout |-> 0]>>
  /\ outcome = <<"failure", "success", "pending">>

\* C25: a waiter sleeps only at the end of a polling round that left at
\* least one deposit pending, once per such round, and each sleep lasts
\* 120000 ms whatever the timeout and the time elapsed.  It does not sleep
\* before the first poll, after the round that left nothing pending, or when
\* the precondition check fails: the sleeps begun are the rounds ended with
\* a deposit pending.
C25_SleepDiscipline ==
  /\ [](call \in WaitCalls =>
          /\ ~Passed => (sleeps = 0 /\ rounds = 0 /\ pc # "sleep")
          /\ pc = "sleep"
               => /\ Passed
                  /\ Len(pendingDeposits) >= 1
                  /\ InClass("pending") # {}
                  /\ sleeps = rounds - 1
                  /\ wake = now + 120000
          /\ pc = "getDeposit" => sleeps = rounds - 1
          /\ pc = "returned"
               => /\ sleeps = rounds - 1
                  /\ InClass("pending") = {}
          /\ (pc = "threw" /\ Passed)
               => IF error.kind = "timeout" THEN sleeps = rounds
                                            ELSE sleeps = rounds - 1)
  /\ [][(call \in WaitCalls)
          => /\ (pc # "sleep" /\ pc' = "sleep")
                  => /\ pc = "getDeposit"
                     /\ i = Len(_deposits)
                     /\ Len(pendingDeposits') >= 1
             /\ sleeps' # sleeps
                  => (/\ pc = "sleep"
                      /\ sleeps' = sleeps + 1
                      /\ now' = now + 120000)]_vars

\* With a timeout of 1 ms, long exceeded, a waiter sleeps 120000 ms after
\* its first round left one deposit pending.
C25_Witness ==
  /\ call = "waitUntilUnstaked"
  /\ timeoutOption = <<1>>
  /\ latency = 2
  /\ pc = "sleep"
  /\ rounds = 1
  /\ sleeps = 0
  /\ now - startTime = 4
  /\ wake = now + 120000
  /\ outcome = <<"success", "pending">>

\* The timeout the call was given, one hour when none was given.
GivenTimeout == IF timeoutOption = <<>> THEN 3600000 ELSE timeoutOption[1]

\* C26: the timeout is checked at the head of a polling round only, before
\* any status query of the round.  When a sleep ends with more than the
\* timeout elapsed since startTime, the waiter throws the timeout error
\* without another query, whatever the remote service would answer now;
\* otherwise the next round begins.  A round that has begun is not cut off
\* by the timeout: within a round the call goes on polling, sleeps, returns
\* or passes on the error of a failed query, however much time has elapsed.
\* So the timeout error is thrown only after a sleep, with the deposits of
\* the latest round's pendingDeposits still pending.
C26_TimeoutAtRoundStart ==
  /\ [](Passed =>
          /\ (pc = "getDeposit" /\ i = 1) => now - startTime <= GivenTimeout
          /\ TimedOut
               => /\ now - startTime > GivenTimeout
                  /\ sleeps = rounds
                  /\ sleeps >= 1
                  /\ Len(pendingDeposits) >= 1
                  /\ _deposits = pendingDeposits
                  /\ Positions(origin) = InClass("pending")
                  /\ InClass("pending") # {})
  /\ [][(Passed /\ Passed')
          => /\ (pc = "sleep" /\ pc' # "sleep")
                  => IF now' - startTime > GivenTimeout
                       THEN /\ TimedOut'
                            /\ rounds' = rounds
                            /\ outcome' = outcome
                            /\ count' = count
                       ELSE /\ pc' = "getDeposit"
                            /\ rounds' = rounds + 1
             /\ pc = "getDeposit"
                  => (/\ ~TimedOut'
                      /\ rounds' = rounds
                      /\ pc' = "threw" => error'.kind \in {"remote", "typeError"})]_vars

\* With a timeout of 300000 ms the timeout error was thrown when the third
\* sleep ended, 360004 ms after startTime, the second deposit still pending;
\* round 3 had begun 240002 ms after startTime and was completed.
C26_Witness ==
  /\ call = "waitUntilStaked"
  /\ timeoutOption = <<300000>>
  /\ latency = 2
  /\ TimedOut
  /\ sleeps = 3
  /\ rounds = 3
  /\ outcome = <<"success", "pending">>
  /\ now - startTime > 300000

\* C27 (as stated): the deadline of a wait is computed when the call starts
\* (time 0 here), the time of the initial status query included: no polling
\* round begins with more than the timeout elapsed since the call started.
C27_DeadlineFromCallStart ==
  (Passed /\ pc = "getDeposit" /\ i = 1) => now - 0 <= GivenTimeout

\* C27 (amended): a waiter whose precondition check passed ends in three
\* ways only: it returns when no deposit is pending, it passes on the error
\* of a failed status query, or it throws the timeout error; nothing else
\* cancels it.  The deadline is measured from startTime, which is taken once,
\* when the initial status query has been answered and checked, and never
\* changes: the time spent in the initial query does not count against the
\* timeout.  A round begins only with at most the timeout elapsed since
\* startTime, and the timeout error is thrown at the first end of a sleep
\* with more than that elapsed.
C27_DeadlineFromStartTime ==
  /\ [](Passed =>
          /\ startTime = latency
          /\ pc \in {"getDeposit", "sleep", "returned", "threw"}
          /\ pc = "threw" => error.kind \in {"timeout", "remote", "typeError"}
          /\ pc = "returned" => InClass("pending") = {}
          /\ (pc = "getDeposit" /\ i = 1) => now - startTime <= GivenTimeout
          /\ TimedOut
               => /\ now - startTime > GivenTimeout
                  /\ now - startTime - 120000 <= GivenTimeout + latency * MaxLen)
  /\ [][(Passed /\ Passed')
          => /\ startTime' = startTime
             /\ (pc = "sleep" /\ pc' # "sleep")
                  => (TimedOut' <=> now' - startTime > GivenTimeout)]_vars

\* With a timeout of 1 ms and an initial query that took 2 ms, the first
\* round has begun: 2 ms have elapsed since the call, 0 since startTime.
C27_Witness ==
  /\ call = "waitUntilStaked"
  /\ timeoutOption = <<1>>
  /\ latency = 2
  /\ pc = "getDeposit"
  /\ i = 1
  /\ rounds = 1
  /\ startTime = 2
  /\ now = 2

\* The deposits at the given positions of the normalized list.
DepositsAt(positions) == {parseDepositsInput(deposits)[k] : k \in positions}

\* C28: scatter and gather.  The precondition check decides when the
\* initial query has an answer for every deposit; in a polling round the
\* list of the next round is assigned and the waiter sleeps or returns only
\* after the last deposit of the round has been answered, and before that
\* every answer is followed by the query of the next deposit of the same
\* list.  What a round leaves is a function of the class each deposit was
\* answered with, not of the order of the queries: each counter is the
\* number of deposits of its class, and the pending deposits are those
\* whose class is pending, for the list <<h1, h2>> as for <<h2, h1>>.
C28_ScatterGather ==
  /\ [](call \in WaitCalls =>
          /\ (Passed \/ (pc = "threw" /\ error.kind = "precondition"))
               => /\ Len(results) = Len(parseDepositsInput(deposits))
                  /\ \A k \in 1..Len(results) : results[k] # "<rejected>"
          /\ Passed
               => /\ count.success = Cardinality(DepositsAt(InClass("success")))
                  /\ count.failure = Cardinality(DepositsAt(InClass("failure")))
                  /\ count.invalid = Cardinality(DepositsAt(InClass("invalid")))
                  /\ pc = "sleep"
                       => /\ {_deposits[k] : k \in 1..Len(_deposits)}
                               = DepositsAt(InClass("pending"))
                          /\ InClass("pending") # {}
                  /\ pc = "returned" => InClass("pending") = {})
  /\ [][(Passed /\ Passed')
          => /\ (pc = "getDeposit" /\ pc' \in {"sleep", "returned"})
                  => i = Len(_deposits)
             /\ _deposits' # _deposits
                  => (pc = "getDeposit" /\ i = Len(_deposits) /\ pc' = "sleep")
             /\ (pc = "getDeposit" /\ i < Len(_deposits) /\ pc' # "threw")
                  => (/\ pc' = "getDeposit"
                      /\ i' = i + 1
                      /\ _deposits' = _deposits)]_vars

\* The first round of a waiter for <<h2, h1>> ended: h2, queried first, was
\* answered as a success and h1 as pending; the waiter sleeps with h1 alone,
\* as it does for <<h1, h2>> with the same answers.
C28_Witness ==
  /\ call = "waitUntilStaked"
  /\ deposits = StringsInput(<<"h2", "h1">>)
  /\ pc = "sleep"
  /\ rounds = 1
  /\ i = 2
  /\ outcome = <<"success", "pending">>
  /\ count = [success |-> 1, failure |-> 0, invalid |-> 0]
  /\ _deposits = <<[txHash |-> "h1", vout |-> 0]>>

\* C29: a failed status query is not swallowed and not retried.  When a
\* query of the initial precondition query is rejected, the waiter has
\* thrown that rejection before any round and any sleep.  When a query of a
\* polling round is rejected, the waiter has thrown that rejection at once:
\* the rejected answer was not classified or counted, the deposits after it
\* in the list of the round were not queried in that round, no sleep
\* followed, and a call that threw takes no further step, so it never
\* returns normally.
C29_QueryFailureSurfaces ==
  /\ [](call \in WaitCalls =>
          /\ depositStatus \in Statuses \cup {""}
          /\ (Queried /\ \E k \in 1..Len(results) : results[k] = "<rejected>")
               => /\ pc = "threw"
                  /\ error.kind = "remote"
                  /\ ~Passed
                  /\ rounds = 0
                  /\ sleeps = 0
          /\ error.kind = "remote"
               => /\ pc = "threw"
                  /\ Passed
                       => /\ rounds >= 1
                          /\ sleeps = rounds - 1
                          /\ i \in 1..Len(_deposits)
                          /\ Len(pendingDeposits)
                               + Cardinality({k \in 1..(i - 1) :
                                                outcome[origin[k]] # "pending"})
                               = i - 1
                          /\ \A k \in i..Len(origin) :
                               /\ outcome[origin[k]] = "pending"
                               /\ \A j \in 1..Len(pendingOrigin) :
                                    pendingOrigin[j] # origin[k])
  /\ [][~(pc = "threw" /\ call \in WaitCalls)]_vars

\* In the second round of a waiter for three deposits the query of the
\* second was rejected: the first had just been counted as a success, the
\* third was not queried, and the waiter threw after one sleep.
C29_Witness ==
  /\ call = "waitUntilWithdrawn"
  /\ pc = "threw"
  /\ error.kind = "remote"
  /\ rounds = 2
  /\ sleeps = 1
  /\ i = 2
  /\ origin = <<1, 2, 3>>
  /\ outcome = <<"success", "pending", "pending">>
  /\ pendingDeposits = <<>>
  /\ count = [success |-> 1, failure |-> 0, invalid |-> 0]

\* The methods of the requests sent so far, in their order.
Methods == [k \in 1..Len(trace) |-> trace[k].method]

\* The steps of withdraw after the status query, with a newly built PSBT and
\* with the pending PSBT of the account.
WithdrawStepsBuilt ==
  <<"user.getAccount", "withdraw.buildUnsignedPsbt", "provider.signPsbt",
    "withdraw.chainSignPsbtAsync", "withdraw.pollChainSignedPsbt",
    "withdraw.submitFinalizedPsbt">>

WithdrawStepsPending ==
  <<"user.getAccount", "withdraw.chainSignPsbtAsync",
    "withdraw.pollChainSignedPsbt", "withdraw.submitFinalizedPsbt">>

IsPrefix(s, t) == Len(s) <= Len(t) /\ \A k \in 1..Len(s) : s[k] = t[k]

\* C30: the steps of one withdraw come in a fixed order.  After the status
\* query of the deposits: the account query; then, only when the account
\* has no pending PSBT, the build request and the local signature, which
\* signs exactly the inputs 0..n-1 of the built PSBT for the n deposits and
\* finalizes none; then chainSignPsbtAsync with the PSBT signed so (or with
\* the pending one), pollChainSignedPsbt, and submitFinalizedPsbt, sent at
\* most once and with the PSBT that pollChainSignedPsbt answered.  A step
\* that fails ends the call: no later step is taken.
C30_WithdrawOrder ==
  /\ [](call = "withdraw" =>
          LET n == Len(parseDepositsInput(deposits))
          IN /\ \/ IsPrefix(Methods, WithdrawStepsBuilt)
                \/ IsPrefix(Methods, WithdrawStepsPending)
             /\ trace # <<>>
                  => /\ Queried
                     /\ Len(results) = n
                     /\ \A k \in 1..n :
                          results[k] \in {"UnstakeConfirmed", "ChainSignProcessing"}
             /\ Len(trace) >= 2
                  => IF account.pendingSignPsbt = <<>>
                       THEN IsPrefix(Methods, WithdrawStepsBuilt)
                       ELSE IsPrefix(Methods, WithdrawStepsPending)
             /\ \A k \in Sent("provider.signPsbt") :
                  /\ trace[k].psbt.inputs = n
                  /\ trace[k].psbt.signedInputs = {}
                  /\ trace[k + 1].method = "withdraw.chainSignPsbtAsync"
                  /\ trace[k + 1].psbt.inputs = n
                  /\ trace[k + 1].psbt.signedInputs = 0..(n - 1)
                  /\ trace[k + 1].psbt.finalizedInputs = {}
                  /\ ~trace[k + 1].psbt.chainSigned
             /\ Cardinality(Sent("withdraw.submitFinalizedPsbt")) <= 1
             /\ \A k \in Sent("withdraw.submitFinalizedPsbt") :
                  /\ trace[k - 1].method = "withdraw.pollChainSignedPsbt"
                  /\ trace[k - 2].method = "withdraw.chainSignPsbtAsync"
                  /\ trace[k].psbt =
                       [trace[k - 2].psbt EXCEPT !.chainSigned = TRUE]
             /\ pc = "returned"
                  => /\ Methods \in {WithdrawStepsBuilt, WithdrawStepsPending}
                     /\ txHash # ""
             /\ pc # "returned" => txHash = "")
  /\ [][~(call = "withdraw" /\ pc = "threw")]_vars

\* withdraw of two deposits returned after all six steps: the PSBT sent to
\* chain signing has the inputs 0 and 1 signed and none finalized.
C30_Witness ==
  /\ call = "withdraw"
  /\ pc = "returned"
  /\ Len(parseDepositsInput(deposits)) = 2
  /\ Methods = WithdrawStepsBuilt
  /\ trace[4].psbt.signedInputs = {0, 1}
  /\ trace[4].psbt.finalizedInputs = {}
  /\ trace[6].psbt.chainSigned

(* ------------------------------ hand-over ------------------------------ *)

\* The examples call the next operation on the deposits right after the wait:
\* unstake after waitUntilStaked, withdraw after waitUntilUnstaked.
NextOperation(c) ==
  CASE c = "waitUntilStaked" -> "unstake"
    [] c = "waitUntilUnstaked" -> "withdraw"

\* The wait whose return precedes the operation.
WaitBefore(c) ==
  CASE c = "unstake" -> "waitUntilStaked"
    [] c = "withdraw" -> "waitUntilUnstaked"

\* The largest number of deposits handed from a wait to the next operation.
MaxHandOver == 2

InitHandOver ==
  /\ InitWait
  /\ call \in {"waitUntilStaked", "waitUntilUnstaked"}
  /\ Len(parseDepositsInput(deposits)) <= MaxHandOver
  /\ latency = 0

\* The wait has returned and the caller starts the next operation with the
\* same deposits; what the wait recorded stays as the history of the run.
handOver ==
  /\ call \in {"waitUntilStaked", "waitUntilUnstaked"}
  /\ pc = "returned"
  /\ call' = NextOperation(call)
  /\ pc' = "start"
  /\ _deposits' = <<>>
  /\ origin' = <<>>
  /\ results' = <<>>
  /\ UNCHANGED <<error, now>>
  /\ UNCHANGED <<deposits, timeoutOption, provider, latency, suspended,
                 staker, process, signer>>
  /\ UNCHANGED <<waitVars, opVars>>

\* The answers of a query sent while the remote statuses are what the wait
\* saw: the wait kept the class of each status, so every status of that class
\* is a possible answer.
RECURSIVE SameStatuses(_, _)
SameStatuses(c, classes) ==
  IF classes = <<>>
    THEN {<<>>}
    ELSE {Append(rs, status) :
            rs \in SameStatuses(c, SubSeq(classes, 1, Len(classes) - 1)),
            status \in {st \in Statuses :
                         Classify(WaitBefore(c), st) = classes[Len(classes)]}}

\* The initial query of the next operation, answered with unchanged statuses.
handOverQueried ==
  /\ call \in OpCalls
  /\ pc = "queryDeposits"
  /\ Len(_deposits) = Len(outcome)
  /\ \E rs \in SameStatuses(call, outcome) :
       unstakeAnswered(rs) \/ withdrawAnswered(rs)

HandOverNext ==
  \/ queryDeposits
  \/ waitQueried
  \/ waitPolled
  \/ waitSlept
  \/ handOver
  \/ handOverQueried

SpecHandOver == InitHandOver /\ [][HandOverNext]_vars

\* The next operation has checked the statuses the wait left behind.
HandedOver == call \in OpCalls /\ outcome # <<>> /\ Queried

\* C31: the success set of the stake wait is the ready set of unstake and the
\* success set of the unstake wait is the ready set of withdraw: when the next
\* operation queries the same deposits with the statuses unchanged since the
\* wait returned, its status check passes if the wait counted every deposit
\* as success, with every status in the ready set, and throws the
\* precondition error if the wait counted some deposit otherwise.
C31_HandOverConsistent ==
  HandedOver =>
    /\ Len(results) = Len(outcome)
    /\ IF \A k \in 1..Len(outcome) : outcome[k] = "success"
         THEN /\ pc # "threw"
              /\ error.kind = "none"
              /\ \A k \in 1..Len(results) :
                   results[k] \in
                     IF call = "unstake"
                       THEN {"DepositConfirmed", "DepositConfirmedInvalid"}
                       ELSE {"UnstakeConfirmed", "ChainSignProcessing"}
         ELSE /\ pc = "threw"
              /\ error.kind = "precondition"

\* Two deposits counted as success by waitUntilUnstaked, with different
\* statuses, are accepted by withdraw.
C31_Witness ==
  /\ HandedOver
  /\ call = "withdraw"
  /\ Len(outcome) = 2
  /\ \A k \in 1..2 : outcome[k] = "success"
  /\ results[1] # results[2]
  /\ pc = "getAccount"

\* A wait that returned with a deposit not counted as success is followed by
\* the precondition error of unstake.
C31_WitnessRefused ==
  /\ HandedOver
  /\ call = "unstake"
  /\ \E k \in 1..Len(outcome) : outcome[k] # "success"
  /\ pc = "threw"

\* The statuses whose branch counts a failure.
FailureStatusesOf(c) ==
  CASE c = "waitUntilStaked" -> {"DepositFailed"}
    [] c = "waitUntilUnstaked" -> {}
    [] c = "waitUntilWithdrawn" -> {"WithdrawFailed"}

\* 1 when the condition holds, else 0.
One(cond) == IF cond THEN 1 ELSE 0

\* C32: classification is total and unambiguous.  For each waiter the
\* success, pending and failure status sets are pairwise disjoint, the
\* failure set of waitUntilUnstaked is empty, and every status, known or not,
\* has exactly one class, invalid exactly when it is in none of the three
\* sets.  A poll answered with a status never throws: it adds one to exactly
\* one of success, failure and invalid or appends the deposit to the pending
\* ones, according to the set the status is in, and to invalid when it is in
\* none; a poll throws only when the status query itself failed, and then
\* counts nothing.
C32_ClassificationTotal ==
  /\ [](\A c \in WaitCalls :
          /\ SuccessStatuses(c) \cap PendingStatuses(c) = {}
          /\ SuccessStatuses(c) \cap FailureStatuses(c) = {}
          /\ PendingStatuses(c) \cap FailureStatuses(c) = {}
          /\ FailureStatuses("waitUntilUnstaked") = {}
          /\ \A st \in Statuses :
               /\ Classify(c, st) \in {"success", "pending", "failure", "invalid"}
               /\ (Classify(c, st) = "invalid")
                    = (st \notin SuccessStatuses(c) \cup PendingStatuses(c)
                                   \cup FailureStatuses(c)))
  /\ [][(call \in WaitCalls /\ pc = "getDeposit" /\ call' = call)
          => IF pc' = "threw"
               THEN /\ error'.kind \in {"remote", "typeError"}
                    /\ count' = count
                    /\ pendingDeposits' = pendingDeposits
               ELSE LET st == depositStatus'
                        inSuccess == st \in SuccessStatusesOf(call)
                        inPending == st = PendingStatusOf(call)
                        inFailure == st \in FailureStatusesOf(call)
                        inNone == ~(inSuccess \/ inPending \/ inFailure)
                    IN /\ st \in Statuses
                       /\ One(inSuccess) + One(inPending) + One(inFailure)
                            + One(inNone) = 1
                       /\ count'.success = count.success + One(inSuccess)
                       /\ count'.failure = count.failure + One(inFailure)
                       /\ count'.invalid = count.invalid + One(inNone)
                       /\ Len(pendingDeposits')
                            = Len(pendingDeposits) + One(inPending)
                       /\ inPending
                            => pendingDeposits'[Len(pendingDeposits')]
                                 = _deposits[i]
                       /\ error' = error]_vars

\* waitUntilUnstaked returned normally after it counted a status unknown to
\* the code as invalid, next to one success.
C32_Witness ==
  /\ call = "waitUntilUnstaked"
  /\ pc = "returned"
  /\ last = 2
  /\ depositStatus = "SomeNewStatus"
  /\ outcome = <<"success", "invalid">>
  /\ count = [success |-> 1, failure |-> 0, invalid |-> 1]

(* ----------------------- single-deposit waiters ------------------------ *)

\* The waiters that take one deposit tx hash, query no precondition and have
\* no timeout: a while (true) loop around one getDeposit.
SingleWaitCalls ==
  {"waitUntilStaked(depositTxHash)", "waitUntilUnstaked(depositTxHash)",
   "waitUntilWithdrawn(depositTxHash)"}

\* The statuses on which the loop breaks.
SingleSuccessStatuses(c) ==
  CASE c = "waitUntilStaked(depositTxHash)" ->
         {"DepositConfirmed", "DepositConfirmedInvalid"}
    [] c = "waitUntilUnstaked(depositTxHash)" ->
         {"UnstakeConfirmed", "ChainSignProcessing"}
    [] c = "waitUntilWithdrawn(depositTxHash)" -> {"WithdrawConfirmed"}

\* The statuses on which the loop sleeps.
SinglePendingStatuses(c) ==
  CASE c = "waitUntilStaked(depositTxHash)" -> {"DepositProcessing"}
    [] c = "waitUntilUnstaked(depositTxHash)" -> {"UnstakeProcessing"}
    [] c = "waitUntilWithdrawn(depositTxHash)" -> {"WithdrawProcessing"}

\* A chain that keeps waiting on any status that is not a success.
SingleClassifyWaiting(c, status) ==
  IF status \in SingleSuccessStatuses(c) THEN "success" ELSE "pending"

\* The if / else-if / else chain of the loop body.
SingleClassify(c, status) ==
  IF status \in SingleSuccessStatuses(c) THEN "success"
  ELSE IF status \in SinglePendingStatuses(c) THEN "pending"
  ELSE "invalid"

\* await sleep(2 * 60 * 1000)
SingleSleepTime == 2 * 60 * 1000

\* throw Error(`Invalid status (${depositStatus}) for staking (${depositTxHash})`)
InvalidStatusError(hash, status) ==
  [kind |-> "invalidStatus", names |-> <<>>, txHash |-> hash, status |-> status]

\* The largest number of polls of one call that is followed.
MaxPolls == 3

InitSingle ==
  /\ call \in SingleWaitCalls
  /\ deposits \in {StringInput(h) : h \in TxHashes}
  /\ timeoutOption = <<>>
  /\ provider = FullProvider
  /\ latency \in Latencies
  /\ suspended = <<>>
  /\ staker = NoStaker
  /\ process = NoProcess
  /\ signer = NoSigner
  /\ InitLocals

\* The call enters the loop and sends its first getDeposit.
singleCalled ==
  /\ call \in SingleWaitCalls
  /\ pc = "start"
  /\ pc' = "getDeposit"
  /\ UNCHANGED <<error, _deposits, results, now, origin>>
  /\ UNCHANGED <<argVars, waitVars, opVars>>

\* getDeposit is answered: the promise rejects, or the answer holds no
\* deposit record so that deposit.status is a TypeError, or the status is
\* classified: break, sleep, or throw.
singlePolled ==
  /\ call \in SingleWaitCalls
  /\ pc = "getDeposit"
  /\ rounds < MaxPolls
  /\ rounds' = rounds + 1
  /\ now' = now + latency
  /\ \E a \in Answers :
       IF Throws(a)
         THEN /\ pc' = "threw"
              /\ error' = IF a = Rejected THEN RemoteError ELSE TypeError
              /\ UNCHANGED <<depositStatus, wake>>
         ELSE /\ depositStatus' = a
              /\ IF SingleClassify(call, a) = "success"
                   THEN /\ pc' = "returned"
                        /\ UNCHANGED <<error, wake>>
                   ELSE IF SingleClassify(call, a) = "pending"
                     THEN /\ pc' = "sleep"
                          /\ wake' = now' + SingleSleepTime
                          /\ UNCHANGED error
                     ELSE /\ pc' = "threw"
                          /\ error' = InvalidStatusError(deposits.value, a)
                          /\ UNCHANGED wake
  /\ UNCHANGED <<_deposits, results, origin>>
  /\ UNCHANGED <<count, startTime, pendingDeposits, i, sleeps, pendingOrigin,
                 last, outcome>>
  /\ UNCHANGED <<argVars, opVars>>

\* The timer of the sleep fires and the loop sends the next getDeposit.
singleSlept ==
  /\ call \in SingleWaitCalls
  /\ pc = "sleep"
  /\ now' = wake
  /\ sleeps' = sleeps + 1
  /\ pc' = "getDeposit"
  /\ UNCHANGED <<error, _deposits, results, origin>>
  /\ UNCHANGED <<count, startTime, pendingDeposits, i, depositStatus, rounds,
                 pendingOrigin, last, outcome, wake>>
  /\ UNCHANGED <<argVars, opVars>>

SingleNext ==
  \/ singleCalled
  \/ singlePolled
  \/ singleSlept

SpecSingle == InitSingle /\ [][SingleNext]_vars

\* The success statuses of a single-deposit waiter.
SingleSuccessOf(c) ==
  CASE c = "waitUntilStaked(depositTxHash)" ->
         {"DepositConfirmed", "DepositConfirmedInvalid"}
    [] c = "waitUntilUnstaked(depositTxHash)" ->
         {"UnstakeConfirmed", "ChainSignProcessing"}
    [] c = "waitUntilWithdrawn(depositTxHash)" -> {"WithdrawConfirmed"}

\* The pending status of a single-deposit waiter.
SinglePendingOf(c) ==
  CASE c = "waitUntilStaked(depositTxHash)" -> "DepositProcessing"
    [] c = "waitUntilUnstaked(depositTxHash)" -> "UnstakeProcessing"
    [] c = "waitUntilWithdrawn(depositTxHash)" -> "WithdrawProcessing"

\* C33: the single-deposit waiters.  A poll that observes a status that is
\* neither a success status nor the pending status of the operation throws,
\* at that poll and without a sleep after it, an error that names the
\* deposit and the status.  The call has returned normally only when its
\* last poll observed a success status.  Every poll before the last one
\* observed the pending status and was followed by one sleep of 2 minutes
\* and the next poll; nothing else ends the call but a failed status query:
\* there is no timeout, however long the deposit stays pending.
C33_SingleWaiter ==
  /\ [](call \in {"waitUntilStaked(depositTxHash)",
                  "waitUntilUnstaked(depositTxHash)",
                  "waitUntilWithdrawn(depositTxHash)"}
          => /\ now = sleeps * 120000 + rounds * latency
             /\ pc \in {"start", "getDeposit"}
                  => /\ sleeps = rounds
                     /\ error.kind = "none"
                     /\ rounds > 0 => depositStatus = SinglePendingOf(call)
             /\ pc = "sleep"
                  => /\ depositStatus = SinglePendingOf(call)
                     /\ sleeps = rounds - 1
                     /\ wake = now + 120000
                     /\ error.kind = "none"
             /\ pc = "returned"
                  => /\ depositStatus \in SingleSuccessOf(call)
                     /\ sleeps = rounds - 1
                     /\ error.kind = "none"
             /\ pc = "threw"
                  => /\ sleeps = rounds - 1
                     /\ error.kind \in {"invalidStatus", "remote", "typeError"}
                     /\ error.kind = "invalidStatus"
                          => /\ error.txHash = deposits.value
                             /\ error.status = depositStatus
             /\ (depositStatus # ""
                   /\ depositStatus
                        \notin SingleSuccessOf(call) \cup {SinglePendingOf(call)})
                  => /\ pc = "threw"
                     /\ error.kind = "invalidStatus"
                     /\ error.txHash = deposits.value
                     /\ error.status = depositStatus)
  /\ [][(call \in {"waitUntilStaked(depositTxHash)",
                   "waitUntilUnstaked(depositTxHash)",
                   "waitUntilWithdrawn(depositTxHash)"})
          => (/\ pc = "sleep"
                   => /\ pc' = "getDeposit"
                      /\ now' = now + 120000
                      /\ sleeps' = sleeps + 1
              /\ pc \in {"returned", "threw"} => UNCHANGED vars
              /\ pc' = "sleep" => pc = "getDeposit")]_vars

\* waitUntilStaked threw at its third poll, which saw the deposit failed,
\* after two pending observations and two sleeps.
C33_Witness ==
  /\ call = "waitUntilStaked(depositTxHash)"
  /\ pc = "threw"
  /\ rounds = 3
  /\ sleeps = 2
  /\ depositStatus = "DepositFailed"
  /\ error = [kind |-> "invalidStatus", names |-> <<>>,
              txHash |-> deposits.value, status |-> "DepositFailed"]

\* waitUntilWithdrawn polls again 6 minutes after its call, the deposit
\* having been pending in every poll.
C33_WitnessStillPolling ==
  /\ call = "waitUntilWithdrawn(depositTxHash)"
  /\ pc = "getDeposit"
  /\ sleeps = 3
  /\ now >= 360000
  /\ depositStatus = "WithdrawProcessing"

====
